---- MODULE Spec2Model ----
(***************************************************************************)
(* Index synchronization pipeline of opensearch-loader: the Loader's run   *)
(* over an index specification (loader.py), the pagination generator of    *)
(* the graph client (memgraph_client.py) and the bulk writes of the search *)
(* client (opensearch_client.py).                                          *)
(*                                                                         *)
(* Field names are sequences of dot-separated segments: the text "a.b" is  *)
(* <<"a", "b">>, so joining with "." and splitting at "." are sequence     *)
(* concatenation and the sequence itself.  A query text is a sequence of   *)
(* text fragments (atoms).  Backend calls (graph source, search backend)   *)
(* either return or raise an exception that is not a ValueError.           *)
(***************************************************************************)
EXTENDS Integers, Sequences, FiniteSets, TLC

\* ------------------------------------------------------------------ bounds
MaxIndices == 2
MaxUpdates == 2
MaxRecords == 2
MaxPageSize == 2
MaxQueryLen == 3

\* --------------------------------------------------------------- helpers
Min(a, b) == IF a < b THEN a ELSE b

SeqsUpTo(S, n) == UNION {[1..k -> S] : k \in 0..n}

\* {**a, **b}: the keys of both, b's value where both have the key
DictMerge(a, b) ==
  [k \in (DOMAIN a) \cup (DOMAIN b) |-> IF k \in DOMAIN b THEN b[k] ELSE a[k]]

EmptyDict == [k \in {} |-> 0]

\* a scalar value of a record; None is Python's None (falsy)
None == 0
Scalar(n) == [k |-> "scalar", v |-> n]

\* dict.get(key) on a record of scalars: the value, or None
DictGet(doc, key) == IF key \in DOMAIN doc THEN doc[key].v ELSE None

\* concatenation of a sequence of sequences
RECURSIVE Flatten(_)
Flatten(ss) == IF ss = <<>> THEN <<>> ELSE ss[1] \o Flatten(Tail(ss))

\* ------------------------------------------------- query text validation
\* memgraph_client.py WRITE_KEYWORDS
WRITE_KEYWORDS ==
  {"CREATE", "SET", "DELETE", "REMOVE", "MERGE", "DETACH", "DROP", "FOREACH"}

\* the text fragments query texts are built from
Atoms ==
  WRITE_KEYWORDS \cup
  {"set", "MATCH", "return", "$skip", "$SKIP", "$limit", "$LIMIT", "$Limit",
   " ", "x"}

QueryTexts == SeqsUpTo(Atoms, MaxQueryLen)

\* str.upper() of a fragment
Upper(a) ==
  CASE a = "set" -> "SET"
    [] a = "return" -> "RETURN"
    [] a = "$skip" -> "$SKIP"
    [] a = "$limit" -> "$LIMIT"
    [] a = "$Limit" -> "$LIMIT"
    [] a = "x" -> "X"
    [] OTHER -> a

QueryUpper(query) == [i \in 1..Len(query) |-> Upper(query[i])]

\* the first / last character of the fragment is a word character (\w)
WordStart(a) == a \notin {" ", "$skip", "$SKIP", "$limit", "$Limit", "$LIMIT"}
WordEnd(a) == a # " "

\* re.search(r"\bKEYWORD\b", text)
WordSearch(keyword, text) ==
  \E i \in 1..Len(text) :
    /\ text[i] = keyword
    /\ (i = 1 \/ ~WordEnd(text[i - 1]))
    /\ (i = Len(text) \/ ~WordStart(text[i + 1]))

\* 'sub' in text, for a substring that is one fragment
Contains(sub, text) == \E i \in 1..Len(text) : text[i] = sub

\* validate_read_only: TRUE when it returns, FALSE when it raises ValueError
ValidateReadOnly(query) ==
  /\ \A keyword \in WRITE_KEYWORDS : ~WordSearch(keyword, QueryUpper(query))
  /\ (Contains("MATCH", QueryUpper(query)) \/ Contains("RETURN", QueryUpper(query)))

\* variant: only the skip reference is looked for
ValidatePaginationParamsSkipOnly(query) ==
  Contains("$skip", query) \/ Contains("$SKIP", query)

\* validate_pagination_params: TRUE when it returns, FALSE when it raises
ValidatePaginationParams(query) ==
  LET has_skip == Contains("$skip", query) \/ Contains("$SKIP", query)
      has_limit == Contains("$limit", query) \/ Contains("$LIMIT", query)
  IN has_skip /\ has_limit

\* session.run: the records the graph holds for the query, cut by the
\* skip and limit parameters
RunQuery(records, parameters) ==
  SubSeq(records, parameters["skip"] + 1,
         Min(parameters["skip"] + parameters["limit"], Len(records)))

\* execute_query: validation, then dispatch.  fail: the graph source raises.
ExecuteQuery(query, parameters, records, fail) ==
  IF ~ValidateReadOnly(query) \/ ~ValidatePaginationParams(query)
  THEN [raised |-> "ValueError", dispatched |-> FALSE, results |-> <<>>]
  ELSE IF fail
  THEN [raised |-> "Exception", dispatched |-> TRUE, results |-> <<>>]
  ELSE [raised |-> "none", dispatched |-> TRUE,
        results |-> RunQuery(records, parameters)]

\* variant: the caller's parameters merged over the pagination pair
MergedParamsCallerWins(parameters, offset, page_size) ==
  DictMerge([skip |-> offset, limit |-> page_size], parameters)

\* the pagination pair merged over the caller's parameters
MergedParams(parameters, offset, page_size) ==
  DictMerge(parameters, [skip |-> offset, limit |-> page_size])

\* ------------------------------------------------------- mapping model
\* _parse_mapping valid_types
valid_types ==
  {"keyword", "text", "search_as_you_type", "long", "integer", "double",
   "float", "boolean", "date", "object"}

\* a field name that is empty after strip()
IsBlank(name) == name = <<"">>

ParseStart == [err |-> FALSE, result |-> EmptyDict, nested |-> EmptyDict]

\* the body of "for field in fields" for one field of a group
ParseField(st, field_type, name) ==
  IF st.err THEN st
  ELSE IF IsBlank(name) THEN [st EXCEPT !.err = TRUE]
  ELSE IF /\ Len(name) = 1
          /\ \/ name[1] \in DOMAIN st.result
             \/ \E p \in DOMAIN st.nested : name[1] \in DOMAIN st.nested[p]
  THEN [st EXCEPT !.err = TRUE]
  ELSE IF Len(name) >= 2
  THEN IF Len(name) # 2 THEN [st EXCEPT !.err = TRUE]
       ELSE LET parent_obj == name[1]
                prop_name == name[2]
                props == IF parent_obj \in DOMAIN st.nested
                         THEN st.nested[parent_obj] ELSE EmptyDict
            IN IF prop_name \in DOMAIN props THEN [st EXCEPT !.err = TRUE]
               ELSE [st EXCEPT !.nested =
                       DictMerge(st.nested,
                         [p \in {parent_obj} |->
                            DictMerge(props,
                              [q \in {prop_name} |-> [type |-> field_type]])])]
  ELSE [st EXCEPT !.result =
          DictMerge(st.result, [f \in {name[1]} |-> [type |-> field_type]])]

RECURSIVE ParseFields(_, _, _)
ParseFields(st, field_type, fields) ==
  IF fields = <<>> THEN st
  ELSE ParseFields(ParseField(st, field_type, fields[1]), field_type, Tail(fields))

\* the body of "for field_type, fields in mapping_config.items()"
RECURSIVE ParseGroups(_, _)
ParseGroups(st, groups) ==
  IF groups = <<>> \/ st.err THEN st
  ELSE LET g == groups[1]
       IN IF ~g.is_list \/ g.type \notin valid_types
          THEN [st EXCEPT !.err = TRUE]
          ELSE ParseGroups(ParseFields(st, g.type, g.fields), Tail(groups))

\* _parse_mapping: ok = FALSE when it raises ValueError
ParseMapping(mapping_config) ==
  LET st == ParseGroups(ParseStart, mapping_config)
      clash == \E p \in DOMAIN st.nested : p \in DOMAIN st.result
      result == DictMerge(st.result,
                  [p \in DOMAIN st.nested |->
                     [type |-> "object", properties |-> st.nested[p]]])
  IN IF mapping_config = <<>> \/ st.err \/ clash \/ DOMAIN result = {}
     THEN [ok |-> FALSE, mapping |-> EmptyDict]
     ELSE [ok |-> TRUE, mapping |-> result]

\* -------------------------------------------------------- field validator
\* _extract_field_names: the names of a record's fields, nested ones joined
RECURSIVE ExtractFieldNames(_, _)
ExtractFieldNames(doc, prefix) ==
  UNION {
    {prefix \o key} \cup
      (IF doc[key].k = "dict"
       THEN ExtractFieldNames(doc[key].v, prefix \o key)
       ELSE IF doc[key].k = "list" /\ doc[key].v # <<>> /\ doc[key].v[1].k = "dict"
       THEN ExtractFieldNames(doc[key].v[1].v, prefix \o key)
       ELSE {})
    : key \in DOMAIN doc }

\* variant: a dotted name passes when its parent is a field of the mapping
UnmappedFieldsParentSuffices(documents, mapping) ==
  LET all_fields == UNION {ExtractFieldNames(documents[i], <<>>) :
                             i \in 1..Len(documents)}
      mapped_fields == DOMAIN mapping
  IN {field \in all_fields :
        /\ ~(Len(field) = 1 /\ field[1] \in mapped_fields)
        /\ ~(Len(field) = 2 /\ field[1] \in mapped_fields)}

\* the fields of the page that the mapping does not declare
UnmappedFields(documents, mapping) ==
  LET all_fields == UNION {ExtractFieldNames(documents[i], <<>>) :
                             i \in 1..Len(documents)}
      mapped_fields == DOMAIN mapping
      nested_parents == {f \in DOMAIN mapping :
                           /\ mapping[f].type = "object"
                           /\ "properties" \in DOMAIN mapping[f]}
  IN {field \in all_fields :
        /\ ~(Len(field) = 1 /\ field[1] \in mapped_fields)
        /\ ~(/\ Len(field) = 2
             /\ field[1] \in nested_parents
             /\ field[2] \in DOMAIN mapping[field[1]].properties)}

\* variant: every page passes
ValidateQueryFieldsAccepts(documents, mapping) == TRUE

\* _validate_query_fields
ValidateQueryFields(documents, mapping) ==
  documents = <<>> \/ UnmappedFields(documents, mapping) = {}

\* ----------------------------------------------------------- bulk writes
\* opensearch_client.py BATCH_SIZE
BATCH_SIZE == 5000

\* str(doc_id): the document identifier of an id value; the values of the
\* model are small integers, which print to distinct texts
Str(v) == v

\* what one bulk() call of n actions can do: apply them all; apply all but
\* item `at` and report it in the failed list; or raise, with none or all
\* of the actions applied
BulkOutcomes(n) ==
  {[kind |-> "ok", at |-> 0]} \cup
  {[kind |-> "item_failed", at |-> i] : i \in 1..n} \cup
  {[kind |-> "raise", at |-> k] : k \in {0, n}}

\* bulk() called without raise_on_error: an item the backend answers with
\* an error status is either returned in the failed list, as the callers
\* expect, or raised by the helper as an exception once the actions were
\* sent; which one depends on the helper's default
ItemErrorRaised(n) == [kind |-> "bulk_index_error", at |-> n]

\* the call of bulk() raised
BulkRaised(outcome) == outcome.kind \in {"raise", "bulk_index_error"}

\* the positions of the actions the backend applies
Applied(n, outcome) ==
  CASE outcome.kind = "ok" -> 1..n
    [] outcome.kind = "item_failed" -> (1..n) \ {outcome.at}
    [] OTHER -> 1..outcome.at

\* variant: the id field is taken out of the document body
UpsertActionsIdRemoved(documents, id_field) ==
  LET keep == {i \in 1..Len(documents) : DictGet(documents[i], id_field) # None}
      F[i \in 0..Len(documents)] ==
        IF i = 0 THEN <<>>
        ELSE IF i \in keep
        THEN Append(F[i - 1],
               [op |-> "index",
                id |-> Str(DictGet(documents[i], id_field)),
                body |-> [k \in (DOMAIN documents[i]) \ {id_field} |->
                            documents[i][k]]])
        ELSE F[i - 1]
  IN F[Len(documents)]

\* bulk_upsert: one index action per record that carries an id
UpsertActions(documents, id_field) ==
  LET keep == {i \in 1..Len(documents) : DictGet(documents[i], id_field) # None}
      F[i \in 0..Len(documents)] ==
        IF i = 0 THEN <<>>
        ELSE IF i \in keep
        THEN Append(F[i - 1],
               [op |-> "index",
                id |-> Str(DictGet(documents[i], id_field)),
                body |-> documents[i]])
        ELSE F[i - 1]
  IN F[Len(documents)]

\* _process_update_batch: one update action per record that carries an id
\* and a field besides it, the id field removed from the body
UpdateActions(updates, id_field) ==
  LET body(u) == [k \in (DOMAIN u) \ {id_field} |-> u[k]]
      keep(u) == /\ DictGet(u, id_field) # None
                 /\ DOMAIN body(u) # {}
      kept == SelectSeq(updates, keep)
  IN [i \in 1..Len(kept) |->
        [op |-> "update",
         id |-> Str(DictGet(kept[i], id_field)),
         body |-> body(kept[i])]]

\* variant: an update replaces the document by the fields it carries
ApplyActionUpdateReplaces(docs, a) ==
  IF a.op = "index"
  THEN DictMerge(docs, [i \in {a.id} |-> a.body])
  ELSE IF a.id \in DOMAIN docs
  THEN [docs EXCEPT ![a.id] = a.body]
  ELSE docs

\* the backend applies one action: index creates or replaces the document,
\* update (doc_as_upsert false) merges into an existing document only
ApplyAction(docs, a) ==
  IF a.op = "index"
  THEN DictMerge(docs, [i \in {a.id} |-> a.body])
  ELSE IF a.id \in DOMAIN docs
  THEN [docs EXCEPT ![a.id] = DictMerge(docs[a.id], a.body)]
  ELSE docs

\* the backend applies the actions at the given positions, in order
ApplyBulk(docs, actions, positions) ==
  LET F[i \in 0..Len(actions)] ==
        IF i = 0 THEN docs
        ELSE IF i \in positions THEN ApplyAction(F[i - 1], actions[i])
        ELSE F[i - 1]
  IN F[Len(actions)]

\* how many of the applied actions changed or created a document
StoredCount(docs, actions, positions) ==
  Cardinality({i \in positions :
                 actions[i].op = "index" \/ actions[i].id \in DOMAIN docs})

\* get_document: the source of the document, or the empty dict for the
\* None of a document that is not found (both are falsy for the caller)
GetDocument(docs, doc_id) ==
  IF doc_id \in DOMAIN docs THEN docs[doc_id] ELSE EmptyDict

\* upsert_document: the document is created or replaced
UpsertDocument(docs, doc_id, document) ==
  DictMerge(docs, [i \in {doc_id} |-> document])

\* variant: the fields of the existing document win
MergeDocumentExistingWins(docs, doc_id, updates) ==
  LET existing == GetDocument(docs, doc_id)
      merged == IF existing # EmptyDict THEN DictMerge(updates, existing)
                ELSE updates
  IN UpsertDocument(docs, doc_id, merged)

\* merge_document: the existing document is read, the updates are laid
\* over it, the result is written back
MergeDocument(docs, doc_id, updates) ==
  LET existing == GetDocument(docs, doc_id)
      merged == IF existing # EmptyDict THEN DictMerge(existing, updates)
                ELSE updates
  IN UpsertDocument(docs, doc_id, merged)

\* variant: a slice runs one record into the next, the boundary record is
\* handed over twice
UpdateBatchesOverlap(updates) ==
  [b \in 1..((Len(updates) + BATCH_SIZE - 1) \div BATCH_SIZE) |->
     SubSeq(updates, (b - 1) * BATCH_SIZE + 1,
            Min(b * BATCH_SIZE + 1, Len(updates)))]

\* bulk_update: the updates cut into batches of BATCH_SIZE
UpdateBatches(updates) ==
  [b \in 1..((Len(updates) + BATCH_SIZE - 1) \div BATCH_SIZE) |->
     SubSeq(updates, (b - 1) * BATCH_SIZE + 1, Min(b * BATCH_SIZE, Len(updates)))]

\* ---------------------------------------------------------------- inputs
\* document_count of an index whose processing raised ('ERROR')
ERROR == -1

IdKey == <<"id">>

\* the grouped mapping declaration of the well-formed index definitions
GoodMapping ==
  << [type |-> "keyword", is_list |-> TRUE, fields |-> << <<"id">>, <<"a">> >>],
     [type |-> "text", is_list |-> TRUE, fields |-> << <<"b">>, <<"c", "t">> >>] >>

\* a declaration that names a field twice
DuplicateMapping ==
  << [type |-> "keyword", is_list |-> TRUE, fields |-> << <<"id">>, <<"a">> >>],
     [type |-> "text", is_list |-> TRUE, fields |-> << <<"a">> >>] >>

\* the shapes of index definitions of a specification file
QueryDef(id_field, mapping, initial_query, n_updates) ==
  [index_name |-> <<>>, type |-> "query", id_field |-> id_field,
   mapping |-> mapping, initial_query |-> initial_query,
   update_queries |-> n_updates, subtype |-> ""]

\* an about_file index definition
AboutDef(index_name) ==
  [index_name |-> index_name, type |-> "about_file", id_field |-> <<>>,
   mapping |-> <<>>, initial_query |-> FALSE, update_queries |-> 0,
   subtype |-> ""]

\* a model index definition; subtype "" is a missing key
ModelDef(index_name, subtype) ==
  [index_name |-> index_name, type |-> "model", id_field |-> <<>>,
   mapping |-> <<>>, initial_query |-> FALSE, update_queries |-> 0,
   subtype |-> subtype]

ModelSubtypes == {"", "node"}

IndexDefs ==
  {QueryDef(<<>>, GoodMapping, TRUE, 0),
   QueryDef(IdKey, <<>>, TRUE, 0),
   QueryDef(IdKey, DuplicateMapping, TRUE, 0),
   QueryDef(IdKey, GoodMapping, FALSE, 0)}
  \cup {QueryDef(IdKey, GoodMapping, TRUE, n) : n \in 0..MaxUpdates}

\* records of a graph query: two with an id and mapped fields, one with a
\* field the mapping lacks, one without an id
G1 == (<<"id">> :> Scalar(1)) @@ (<<"a">> :> Scalar(1))
U2 == (<<"id">> :> Scalar(2)) @@ (<<"b">> :> Scalar(2))
X1 == (<<"id">> :> Scalar(1)) @@ (<<"x">> :> Scalar(1))
N0 == (<<"a">> :> Scalar(2))

\* the i-th record of a result set of mapped records
MappedRecord(i) == IF i % 3 = 1 THEN G1 ELSE IF i % 3 = 2 THEN U2 ELSE N0

\* what the graph can hold for a query: up to MaxRecords mapped records, or
\* a result set with an unmapped field in its first or in its second record
Sources ==
  {[i \in 1..n |-> MappedRecord(i)] : n \in 0..MaxRecords}
  \cup {<<X1>>, <<G1, X1>>}

\* query texts of the index definitions
TextOK == <<"MATCH", " ", "$skip", " ", "$limit">>
TextWrite == <<"MATCH", " ", "SET", " ", "$skip", " ", "$limit">>
TextNoLimit == <<"MATCH", " ", "$skip">>

\* caller-supplied query variables
NoVariables == EmptyDict
ClashVariables == [skip |-> 7, limit |-> 9, v |-> 5]

\* query definitions: text, variables, page_size
QueryConfigs ==
  {[query |-> TextOK, variables |-> NoVariables, page_size |-> p] :
     p \in 1..MaxPageSize}
  \cup {[query |-> t, variables |-> NoVariables, page_size |-> 1] :
          t \in {TextWrite, <<>>}}

NoQuery == [query |-> <<>>, variables |-> NoVariables, page_size |-> 1]

\* the destination index before the run: absent, or holding a document
StaleDoc == (<<"id">> :> Scalar(2)) @@ (<<"a">> :> Scalar(1))
NoIndex == [exists |-> FALSE, docs |-> EmptyDict]
PriorIndexStates == {NoIndex, [exists |-> TRUE, docs |-> (2 :> StaleDoc)]}

\* index names as the specification file and the configuration spell them
NameA == <<" ", "a">>
NameB == <<"b">>
NameM == <<"m">>
NameP == <<"p">>

\* str.strip()
RECURSIVE LStrip(_)
LStrip(s) == IF s # <<>> /\ Head(s) = " " THEN LStrip(Tail(s)) ELSE s

RECURSIVE RStrip(_)
RStrip(s) ==
  IF s # <<>> /\ s[Len(s)] = " " THEN RStrip(SubSeq(s, 1, Len(s) - 1)) ELSE s

Strip(s) == RStrip(LStrip(s))

\* the index definitions of a specification file, by name and type; the
\* other keys of a definition are read when the index is processed
IndexHead(index_name, type) == [index_name |-> index_name, type |-> type]

IndexSpecs ==
  {spec \in {<<IndexHead(NameA, "query")>>,
             <<IndexHead(NameA, "query"), IndexHead(NameB, "query")>>,
             <<IndexHead(NameM, "model")>>,
             <<IndexHead(NameA, "query"), IndexHead(NameM, "model")>>,
             <<IndexHead(NameA, "query"), IndexHead(NameB, "query"),
               IndexHead(NameM, "model")>>,
             <<IndexHead(NameP, "about_file")>>,
             <<IndexHead(NameM, "model"), IndexHead(NameP, "about_file")>>} :
     Len(spec) <= MaxIndices}

\* the selected_indices key of the configuration; <<>> is an unset key or
\* an empty list
Selections ==
  {<<>>,
   << <<"a", " ">> >>,
   << NameB, <<"a">> >>,
   << <<"c">> >>,
   << NameB, <<"c">>, <<>> >>,
   << <<" ">> >>,
   << NameM >>}

\* the model_files key of the configuration: <<>> is an unset key; a file
\* is a schema with nodes, a schema without nodes, or no file at all
ModelFiles == {<<>>, <<"nodes">>, <<"no_nodes">>, <<"not_a_file">>}

\* the about_file key of the configuration: "" is an unset key; a file
\* holds pages, or nothing, or the path is no file at all
AboutFiles == {"", "pages", "empty", "not_a_file"}

\* a page of the about file with its 'page' number, and one without
AboutPage(n) == (<<"page">> :> Scalar(n)) @@ (<<"title">> :> Scalar(n))
UnnumberedPage == (<<"title">> :> Scalar(0))

\* yaml.safe_load of the about file
AboutFileContent(file_name) ==
  IF file_name = "pages"
  THEN <<AboutPage(1), UnnumberedPage, AboutPage(2)>>
  ELSE <<>>

\* the document id f'page{page_num}' of an about page, as a code apart
\* from the ids of the other documents
PageDocId(page_num) == 100 + page_num

\* the configurations of a run: the about_file key is set in runs whose
\* specification has an about_file index, test mode is tried on a
\* specification of one query index
Configs(spec) ==
  {c \in [clear_existing_indices : BOOLEAN, allow_index_creation : BOOLEAN,
          test_mode : BOOLEAN, about_file : AboutFiles] :
     /\ c.about_file # "" =>
          \E i \in 1..Len(spec) : spec[i].type = "about_file"
     /\ c.test_mode =>
          /\ spec = <<IndexHead(NameA, "query")>>
          /\ c.clear_existing_indices /\ c.allow_index_creation}

\* Loader.model before read_model
NoModel == [loaded |-> FALSE, nodes |-> <<>>]

\* ----------------------------------------------------------------- state
VARIABLES
  config,               \* Config: clear_existing_indices, allow_index_creation,
                        \* test_mode, about_file
  indices,              \* load()'s indices: the specification's, then the filtered
  selected_indices,     \* the configured selection, until load() has applied it
  model_files,          \* the configured model files, until load() has read them
  model,                \* Loader.model
  index_config,         \* the index definition load()'s loop is at
  pc,                   \* where the Loader is
  idx,                  \* position of load()'s for loop in indices
  index_stats,          \* Loader.index_stats
  exc,                  \* the exception propagating out of _process_index
  ret,                  \* the value _process_index returned
  os_index,             \* the destination index of indices[idx] in the backend
  u,                    \* position of the update query loop
  qcfg,                 \* the query definition being run
  records,              \* what the graph holds for the query being run
  gen,                  \* the generator of execute_paginated_query
  last_query_time,      \* MemgraphClient.last_query_time
  query_duration,       \* the value the finally clause read
  page,                 \* page_documents / page_updates
  page_num,
  total_documents,
  total_updates,
  first_page_validated,
  executions,           \* history: the executions dispatched by this generator
  yielded,              \* history: the pages this generator yielded
  attempts,             \* history: the write attempts of the current page
  hist,                 \* history of the index being processed
  outcomes,             \* history: how _process_index ended, per index
  client_call           \* history: the calls made on a client alone

vars ==
  <<config, indices, selected_indices, model_files, model, index_config, pc,
    idx, index_stats, exc, ret, os_index,
    u, qcfg, records, gen, last_query_time, query_duration, page, page_num, total_documents,
    total_updates, first_page_validated, executions, yielded, attempts, hist,
    outcomes, client_call>>

runVars ==
  <<config, indices, selected_indices, model_files, model, client_call>>
queryVars ==
  <<qcfg, records, gen, page, page_num, first_page_validated, executions,
    yielded, attempts>>

NoGen ==
  [state |-> "none", test_mode |-> FALSE, offset |-> 0, total_query_time |-> 0,
   page_results |-> <<>>]

\* wrote: a bulk call of this run stored a document in the index;
\* updates_started: how many update queries began to run;
\* matched: how many records the graph holds for the initial query (-1
\* before the initial query starts);
\* refreshes: how many times a refresh of the index was requested;
\* item_failed: a bulk call returned with a non-empty list of failed items;
\* page_refresh: a bulk call of the current query asked for a refresh of
\* the index with its request;
\* dirty: a document was stored after the last call of refresh_index;
\* aux_bulk_calls, aux_single_calls: for an about_file or model index, how
\* many times bulk_upsert and upsert_document were called
NoHist ==
  [wrote |-> FALSE, updates_started |-> 0, matched |-> 0 - 1, refreshes |-> 0,
   item_failed |-> FALSE, page_refresh |-> FALSE, dirty |-> FALSE,
   aux_bulk_calls |-> 0, aux_single_calls |-> 0]

\* ------------------------------------------------- whole bulk operations
OkOutcome == [kind |-> "ok", at |-> 0]

\* no call was made on the client alone.  op: the bulk call made; before:
\* the documents of the index before it; outcome: what bulk() did; raised:
\* the bulk call raised; merges: the records merged with merge_document, by
\* id; merge_raised: a call of merge_document raised; runs: how many times
\* the bulk call was made with the page; first, first_outcome: the
\* documents of the index after the first of them and what bulk() did in it
NoCall ==
  [op |-> "none", before |-> EmptyDict, outcome |-> OkOutcome,
   raised |-> FALSE, merges |-> EmptyDict, merge_raised |-> FALSE,
   runs |-> 0, first |-> EmptyDict, first_outcome |-> OkOutcome]

\* the refresh argument of the bulk calls of bulk_upsert and
\* _process_update_batch: the backend is asked to refresh the index as part
\* of the bulk request
BulkRefresh == TRUE

\* variant: the actions carry no document id, the backend stores each
\* record under an id of its own making
BulkUpsertAutoId(docs, documents, id_field, outcome) ==
  LET actions == UpsertActions(documents, id_field)
      positions == Applied(Len(actions), outcome)
      fresh == 10 * (Cardinality(DOMAIN docs) + 1)
      auto == [i \in 1..Len(actions) |->
                 [actions[i] EXCEPT !.id = fresh + i]]
  IN IF actions = <<>>
     THEN [docs |-> docs, stored |-> 0, called |-> FALSE, raised |-> FALSE,
           refresh |-> FALSE]
     ELSE [docs |-> ApplyBulk(docs, auto, positions),
           stored |-> StoredCount(docs, auto, positions),
           called |-> TRUE,
           raised |-> BulkRaised(outcome),
           refresh |-> BulkRefresh]

\* bulk_upsert under a backend outcome: the index afterwards, how many
\* documents were stored, whether the call raised
BulkUpsert(docs, documents, id_field, outcome) ==
  LET actions == UpsertActions(documents, id_field)
      positions == Applied(Len(actions), outcome)
  IN IF actions = <<>>
     THEN [docs |-> docs, stored |-> 0, called |-> FALSE, raised |-> FALSE,
           refresh |-> FALSE]
     ELSE [docs |-> ApplyBulk(docs, actions, positions),
           stored |-> StoredCount(docs, actions, positions),
           called |-> TRUE,
           raised |-> BulkRaised(outcome),
           refresh |-> BulkRefresh]

\* bulk_update under a backend outcome that hits batch number `batch`
BulkUpdate(docs, updates, id_field, batch, outcome) ==
  LET batches == UpdateBatches(updates)
      F[j \in 0..Len(batches)] ==
        IF j = 0
        THEN [docs |-> docs, stored |-> 0, called |-> FALSE, raised |-> FALSE,
           refresh |-> FALSE]
        ELSE LET prev == F[j - 1]
                 actions == UpdateActions(batches[j], id_field)
                 o == IF j = batch THEN outcome ELSE OkOutcome
                 positions == Applied(Len(actions), o)
             IN IF prev.raised \/ actions = <<>> THEN prev
                ELSE [docs |-> ApplyBulk(prev.docs, actions, positions),
                      stored |-> prev.stored
                                 + StoredCount(prev.docs, actions, positions),
                      called |-> TRUE,
                      raised |-> BulkRaised(o),
                      refresh |-> BulkRefresh]
  IN F[Len(batches)]

\* the outcomes the backend can produce for a bulk_upsert of the page
UpsertOutcomes(documents, id_field) ==
  IF UpsertActions(documents, id_field) = <<>> THEN {OkOutcome}
  ELSE BulkOutcomes(Len(UpsertActions(documents, id_field)))

\* the outcomes the backend can produce when a failure, if any, hits batch
\* number `batch` of a bulk_update; an update of a document the index lacks
\* is an item error (document missing)
UpdateOutcomes(docs, updates, id_field, batch) ==
  LET batches == UpdateBatches(updates)
      actions == IF batch \in 1..Len(batches)
                 THEN UpdateActions(batches[batch], id_field) ELSE <<>>
      n == Len(actions)
      missing == {i \in 1..n : actions[i].id \notin DOMAIN docs}
  IN (IF batch = 1 THEN {OkOutcome} ELSE {})
     \cup (IF n > 0 THEN BulkOutcomes(n) \ {OkOutcome} ELSE {})
     \cup (IF missing # {} THEN {ItemErrorRaised(n)} ELSE {})

\* ------------------------------------------------- pagination generator
\* variant: a short page does not end the sequence
SequenceEndsTestOnly(g, qc) == g.test_mode

\* lines 184-189: after a yielded page the loop is left in test mode or
\* when the page was short
SequenceEnds(g, qc) == g.test_mode \/ Len(g.page_results) < qc.page_size

\* variant: the offset advances by one record
AdvanceOffsetByOne(offset, page_size) == offset + 1

\* line 192: offset += page_size
AdvanceOffset(offset, page_size) == offset + page_size

\* variant: last_query_time is not reset when the generator starts
GenStepNoReset(g, qc, recs, lqt, fail) ==
  LET resumed == g.state = "suspended"
      ends == resumed /\ SequenceEnds(g, qc)
      offset == IF resumed THEN AdvanceOffset(g.offset, qc.page_size) ELSE 0
      params == MergedParams(qc.variables, offset, qc.page_size)
      r == ExecuteQuery(qc.query, params, recs, fail)
      reset == lqt
  IN IF ends
     THEN [outcome |-> "stop", raised |-> "none", dispatched |-> FALSE,
           params |-> params, results |-> <<>>,
           gen |-> [g EXCEPT !.state = "done"],
           last_query_time |-> g.total_query_time]
     ELSE IF r.raised # "none"
     THEN [outcome |-> "raise", raised |-> r.raised, dispatched |-> r.dispatched,
           params |-> params, results |-> <<>>,
           gen |-> [g EXCEPT !.state = "done", !.offset = offset],
           last_query_time |-> reset]
     ELSE IF r.results = <<>>
     THEN [outcome |-> "stop", raised |-> "none", dispatched |-> TRUE,
           params |-> params, results |-> <<>>,
           gen |-> [g EXCEPT !.state = "done", !.offset = offset,
                             !.total_query_time = @ + 1],
           last_query_time |-> g.total_query_time + 1]
     ELSE [outcome |-> "yield", raised |-> "none", dispatched |-> TRUE,
           params |-> params, results |-> r.results,
           gen |-> [g EXCEPT !.state = "suspended", !.offset = offset,
                             !.total_query_time = @ + 1,
                             !.page_results = r.results],
           last_query_time |-> reset]

\* one next() of execute_paginated_query: the code from the last yield (or
\* from the start) up to the next yield, the end of the function or a raise
GenStep(g, qc, recs, lqt, fail) ==
  LET resumed == g.state = "suspended"
      ends == resumed /\ SequenceEnds(g, qc)
      offset == IF resumed THEN AdvanceOffset(g.offset, qc.page_size) ELSE 0
      params == MergedParams(qc.variables, offset, qc.page_size)
      r == ExecuteQuery(qc.query, params, recs, fail)
      reset == IF resumed THEN lqt ELSE 0
  IN IF ends
     THEN [outcome |-> "stop", raised |-> "none", dispatched |-> FALSE,
           params |-> params, results |-> <<>>,
           gen |-> [g EXCEPT !.state = "done"],
           last_query_time |-> g.total_query_time]
     ELSE IF r.raised # "none"
     THEN [outcome |-> "raise", raised |-> r.raised, dispatched |-> r.dispatched,
           params |-> params, results |-> <<>>,
           gen |-> [g EXCEPT !.state = "done", !.offset = offset],
           last_query_time |-> reset]
     ELSE IF r.results = <<>>
     THEN [outcome |-> "stop", raised |-> "none", dispatched |-> TRUE,
           params |-> params, results |-> <<>>,
           gen |-> [g EXCEPT !.state = "done", !.offset = offset,
                             !.total_query_time = @ + 1],
           last_query_time |-> g.total_query_time + 1]
     ELSE [outcome |-> "yield", raised |-> "none", dispatched |-> TRUE,
           params |-> params, results |-> r.results,
           gen |-> [g EXCEPT !.state = "suspended", !.offset = offset,
                             !.total_query_time = @ + 1,
                             !.page_results = r.results],
           last_query_time |-> reset]

\* execute_paginated_query called: the generator before its first next()
NewGen(test_mode) == [NoGen EXCEPT !.state = "new", !.test_mode = test_mode]

\* ------------------------------------------------------------ the run
Def == index_config

\* how many index definitions load()'s loop goes through
n_indices == Len(indices)

NoDef == QueryDef(<<>>, <<>>, FALSE, 0)

ErrorStat(index_name) ==
  [index_name |-> index_name, document_count |-> ERROR, error |-> TRUE]

SuccessStat(index_name, document_count) ==
  [index_name |-> index_name, document_count |-> document_count,
   error |-> FALSE]

Init ==
  /\ indices \in IndexSpecs
  /\ config \in Configs(indices)
  /\ selected_indices \in Selections
  /\ model_files \in ModelFiles
  /\ config.test_mode => selected_indices = <<>> /\ model_files = <<>>
  /\ model = NoModel
  /\ index_config = NoDef
  /\ pc = "load"
  /\ idx = 0
  /\ index_stats = <<>>
  /\ exc = "none"
  /\ ret = 0
  /\ os_index = NoIndex
  /\ u = 0
  /\ qcfg = NoQuery
  /\ records = <<>>
  /\ gen = NoGen
  /\ last_query_time = 0
  /\ query_duration = 0
  /\ page = <<>>
  /\ page_num = 0
  /\ total_documents = 0
  /\ total_updates = 0
  /\ first_page_validated = FALSE
  /\ executions = <<>>
  /\ yielded = <<>>
  /\ attempts = <<>>
  /\ hist = NoHist
  /\ outcomes = <<>>
  /\ client_call = NoCall

\* the locals and histories of one query, as left when no query is running
QueryIdle ==
  /\ qcfg' = NoQuery
  /\ records' = <<>>
  /\ gen' = NoGen
  /\ page' = <<>>
  /\ page_num' = 0
  /\ first_page_validated' = FALSE
  /\ executions' = <<>>
  /\ yielded' = <<>>
  /\ attempts' = <<>>

\* an exception propagates out of _process_index
Raise(kind) ==
  /\ pc' = "except"
  /\ exc' = kind
  /\ ret' = 0
  /\ outcomes' = Append(outcomes, "raised")

\* _process_index returns a document count
Return(value) ==
  /\ pc' = "returned"
  /\ exc' = "none"
  /\ ret' = value
  /\ outcomes' = Append(outcomes, "returned")

\* _process_index goes on
Goto(label) ==
  /\ pc' = label
  /\ UNCHANGED <<exc, ret, outcomes>>

\* Config.get_selected_indices: empty names dropped, the others trimmed;
\* <<>> is the None returned for an unset key or when no name is left
GetSelectedIndices(selected) ==
  LET NonEmpty(v) == v # <<>>
      kept == SelectSeq(selected, NonEmpty)
  IN [i \in 1..Len(kept) |-> Strip(kept[i])]

\* variant: the names of the specification are compared as they are spelled
FilterIndicesUntrimmed(all_indices, selected) ==
  LET selected_set ==
        {Strip(selected[i]) : i \in {j \in 1..Len(selected) : selected[j] # <<>>}}
      Selected(index_def) == index_def.index_name \in selected_set
  IN SelectSeq(all_indices, Selected)

\* load(), lines 103-125: the definitions whose trimmed name is one of the
\* trimmed selected names
FilterIndices(all_indices, selected) ==
  LET selected_set ==
        {Strip(selected[i]) : i \in {j \in 1..Len(selected) : selected[j] # <<>>}}
      Selected(index_def) == Strip(index_def.index_name) \in selected_set
  IN SelectSeq(all_indices, Selected)

\* Schema.__init__: the files are merged; a schema without nodes raises
Schema(yaml_files) ==
  IF \A i \in 1..Len(yaml_files) : yaml_files[i] # "nodes"
  THEN [raised |-> "ValueError", model |-> NoModel]
  ELSE [raised |-> "none", model |-> [loaded |-> TRUE, nodes |-> <<3>>]]

\* read_model: every file must exist, then the schema is built
ReadModel(files) ==
  IF \E i \in 1..Len(files) : files[i] = "not_a_file"
  THEN [raised |-> "ValueError", model |-> NoModel]
  ELSE Schema(files)

\* variant: an empty effective selection falls back to the whole
\* specification
EffectiveIndicesOrAll(all_indices, selected) ==
  IF selected # <<>> /\ FilterIndices(all_indices, selected) # <<>>
  THEN FilterIndices(all_indices, selected)
  ELSE all_indices

\* load(), lines 101-132: the list load() goes on with; <<>> when the
\* selection matches nothing
EffectiveIndices(all_indices, selected) ==
  IF selected # <<>> THEN FilterIndices(all_indices, selected)
  ELSE all_indices

\* load(), lines 85-147: the specification has been read; the selection
\* is applied, the model is read when a model index is to be processed,
\* the loop starts.  The exception of read_model leaves load().
Load ==
  /\ pc = "load"
  /\ LET selected == GetSelectedIndices(selected_indices)
         todo == EffectiveIndices(indices, selected)
         has_model_indices == \E i \in 1..Len(todo) : todo[i].type = "model"
         r == IF model_files # <<>> /\ has_model_indices
              THEN ReadModel(model_files)
              ELSE [raised |-> "none", model |-> model]
     IN IF todo = <<>>
        THEN /\ pc' = "no_match"
             /\ UNCHANGED <<indices, model, idx, exc>>
        ELSE /\ indices' = todo
             /\ model' = r.model
             /\ exc' = r.raised
             /\ IF r.raised # "none"
                THEN pc' = "aborted" /\ UNCHANGED idx
                ELSE pc' = "for_index" /\ idx' = 1
  /\ selected_indices' = <<>>
  /\ model_files' = <<>>
  /\ UNCHANGED <<config, client_call, ret, outcomes, index_config, queryVars,
                 index_stats,
                 os_index, u, last_query_time, query_duration,
                 total_documents, total_updates, hist>>

\* variant: an index whose mapping is missing or invalid is processed
\* like any other
ProcessIndexMappingOptional ==
  /\ pc = "for_index"
  /\ idx <= n_indices
  /\ indices[idx].type = "query"
  /\ \E d \in IndexDefs :
       LET index_def == [d EXCEPT !.index_name = indices[idx].index_name]
       IN /\ index_config' = index_def
          /\ IF index_def.id_field = <<>> THEN Raise("ValueError")
             ELSE Goto("qi_delete")
  /\ \E prior \in PriorIndexStates : os_index' = prior
  /\ hist' = NoHist
  /\ total_documents' = 0
  /\ total_updates' = 0
  /\ u' = 0
  /\ query_duration' = 0
  /\ UNCHANGED <<runVars, queryVars, idx, index_stats, last_query_time>>

\* load()'s loop takes the next index definition; _process_index routes it;
\* _process_query_index checks id_field and parses the mapping
ProcessIndex ==
  /\ pc = "for_index"
  /\ idx <= n_indices
  /\ indices[idx].type = "query"
  /\ \E d \in IndexDefs :
       LET index_def == [d EXCEPT !.index_name = indices[idx].index_name]
       IN /\ index_config' = index_def
          /\ IF index_def.id_field = <<>> THEN Raise("ValueError")
             ELSE IF \/ index_def.mapping = <<>>
                     \/ ~ParseMapping(index_def.mapping).ok
             THEN Return(0)
             ELSE Goto("qi_delete")
  /\ \E prior \in PriorIndexStates : os_index' = prior
  /\ hist' = NoHist
  /\ total_documents' = 0
  /\ total_updates' = 0
  /\ u' = 0
  /\ query_duration' = 0
  /\ UNCHANGED <<runVars, queryVars, idx, index_stats, last_query_time>>

\* delete_index
DeleteIndex(ix) == NoIndex

\* create_index: creates the index when it is absent
CreateIndex(ix) == [ix EXCEPT !.exists = TRUE]

\* create_index with force=True, as the caller's comment describes it: the
\* index is created anew even if it exists
RecreateIndex(ix) == [exists |-> TRUE, docs |-> EmptyDict]

\* refresh_index: makes the documents written so far searchable; the
\* documents of the index are what they were
RefreshIndex(ix) == ix

\* get_model_data for subtype 'node': one document per node of the model
GetModelData(schema, subtype) ==
  IF subtype = "node"
  THEN [i \in 1..Len(schema.nodes) |->
          (IdKey :> Scalar(schema.nodes[i]))
          @@ (<<"node">> :> Scalar(schema.nodes[i]))]
  ELSE <<>>

\* load_model: the index is cleared and created as configured, the
\* documents are written in one bulk_upsert call, the index is refreshed;
\* stage: the call to the backend that raises, if any
LoadModel(ix, cfg, documents, stage, outcome) ==
  LET cleared == IF cfg.clear_existing_indices THEN DeleteIndex(ix) ELSE ix
      created == IF cfg.allow_index_creation THEN CreateIndex(cleared)
                 ELSE cleared
      w == BulkUpsert(created.docs, documents, IdKey, outcome)
      written == [exists |-> created.exists \/ w.stored > 0, docs |-> w.docs]
      calls == IF documents # <<>> THEN 1 ELSE 0
  IN CASE stage = "delete" ->
            [index |-> ix, stored |-> 0, refreshes |-> 0, raised |-> TRUE,
             bulk_calls |-> 0]
       [] stage = "create" ->
            [index |-> cleared, stored |-> 0, refreshes |-> 0, raised |-> TRUE,
             bulk_calls |-> 0]
       [] stage \notin {"delete", "create"} /\ w.raised ->
            [index |-> written, stored |-> w.stored, refreshes |-> 0,
             raised |-> TRUE, bulk_calls |-> calls]
       [] OTHER ->
            [index |-> RefreshIndex(written), stored |-> w.stored,
             refreshes |-> 1, raised |-> stage = "refresh",
             bulk_calls |-> calls]

\* load()'s loop takes the next index definition; _process_index routes it
\* to _process_model_index, which loads the model documents
ProcessModelIndex ==
  /\ pc = "for_index"
  /\ idx <= n_indices
  /\ indices[idx].type = "model"
  /\ \E subtype \in ModelSubtypes, prior \in PriorIndexStates,
        stage \in {"none", "delete", "create", "refresh"} :
       LET documents == GetModelData(model, subtype)
       IN /\ index_config' = ModelDef(indices[idx].index_name, subtype)
          /\ stage = "delete" => config.clear_existing_indices
          /\ stage = "create" => config.allow_index_creation
          /\ IF ~model.loaded \/ subtype = ""
             THEN /\ stage = "none"
                  /\ os_index' = prior
                  /\ hist' = NoHist
                  /\ Return(0)
             ELSE \E outcome \in UpsertOutcomes(documents, IdKey) :
                    LET r == LoadModel(prior, config, documents, stage, outcome)
                    IN /\ os_index' = r.index
                       /\ hist' = [NoHist EXCEPT
                                  !.wrote = r.stored > 0,
                                  !.refreshes = r.refreshes,
                                  !.dirty = r.stored > 0 /\ r.refreshes = 0,
                                  !.aux_bulk_calls = r.bulk_calls]
                       /\ IF r.raised THEN Raise("Exception")
                          ELSE Return(Len(documents))
  /\ total_documents' = 0
  /\ total_updates' = 0
  /\ u' = 0
  /\ query_duration' = 0
  /\ UNCHANGED <<runVars, queryVars, idx, index_stats, last_query_time>>

\* the pages of the about file that carry a 'page' number
NumberedPages(about_file) ==
  SelectSeq(about_file, LAMBDA pg : DictGet(pg, <<"page">>) # None)

\* the documents after the first n numbered pages were upserted
RECURSIVE UpsertPages(_, _, _)
UpsertPages(docs, pages, n) ==
  IF n = 0 THEN docs
  ELSE UpsertDocument(UpsertPages(docs, pages, n - 1),
                      PageDocId(DictGet(pages[n], <<"page">>)), pages[n])

\* variant: the pages are written with one bulk_upsert call
LoadAboutPageBulk(ix, cfg, file_name, stage, fail_at) ==
  LET cleared == IF cfg.clear_existing_indices THEN DeleteIndex(ix) ELSE ix
      created == IF cfg.allow_index_creation THEN CreateIndex(cleared)
                 ELSE cleared
      pages == NumberedPages(AboutFileContent(file_name))
      done == IF fail_at = 0 THEN Len(pages) ELSE 0
      docs == UpsertPages(created.docs, pages, done)
      written == [exists |-> created.exists \/ done > 0, docs |-> docs]
      result == [index |-> ix, count |-> 0, refreshes |-> 0, raised |-> "none",
                 bulk_calls |-> 0, single_calls |-> 0, stored |-> 0]
  IN CASE file_name = "not_a_file" -> [result EXCEPT !.raised = "ValueError"]
       [] file_name # "not_a_file" /\ stage = "delete" ->
            [result EXCEPT !.raised = "Exception"]
       [] file_name # "not_a_file" /\ stage = "create" ->
            [result EXCEPT !.index = cleared, !.raised = "Exception"]
       [] file_name # "not_a_file" /\ stage \notin {"delete", "create"}
          /\ AboutFileContent(file_name) = <<>> ->
            [result EXCEPT !.index = created]
       [] OTHER ->
            IF fail_at > 0
            THEN [result EXCEPT !.index = written, !.raised = "Exception",
                                !.bulk_calls = 1, !.stored = done]
            ELSE [result EXCEPT !.index = RefreshIndex(written),
                                !.count = Len(pages), !.refreshes = 1,
                                !.bulk_calls = 1, !.stored = done,
                                !.raised = IF stage = "refresh"
                                           THEN "Exception" ELSE "none"]

\* load_about_page: the path must be a file; the index is cleared and
\* created as configured; an empty file ends the load; every page with a
\* 'page' number is written with its own upsert_document call; the index is
\* refreshed.  stage: the delete, create or refresh that raises, if any;
\* fail_at: the upsert_document call that raises, 0 for none
LoadAboutPage(ix, cfg, file_name, stage, fail_at) ==
  LET cleared == IF cfg.clear_existing_indices THEN DeleteIndex(ix) ELSE ix
      created == IF cfg.allow_index_creation THEN CreateIndex(cleared)
                 ELSE cleared
      pages == NumberedPages(AboutFileContent(file_name))
      done == IF fail_at = 0 THEN Len(pages) ELSE fail_at - 1
      docs == UpsertPages(created.docs, pages, done)
      written == [exists |-> created.exists \/ done > 0, docs |-> docs]
      result == [index |-> ix, count |-> 0, refreshes |-> 0, raised |-> "none",
                 bulk_calls |-> 0, single_calls |-> 0, stored |-> 0]
  IN CASE file_name = "not_a_file" -> [result EXCEPT !.raised = "ValueError"]
       [] file_name # "not_a_file" /\ stage = "delete" ->
            [result EXCEPT !.raised = "Exception"]
       [] file_name # "not_a_file" /\ stage = "create" ->
            [result EXCEPT !.index = cleared, !.raised = "Exception"]
       [] file_name # "not_a_file" /\ stage \notin {"delete", "create"}
          /\ AboutFileContent(file_name) = <<>> ->
            [result EXCEPT !.index = created]
       [] OTHER ->
            IF fail_at > 0
            THEN [result EXCEPT !.index = written, !.raised = "Exception",
                                !.single_calls = fail_at, !.stored = done]
            ELSE [result EXCEPT !.index = RefreshIndex(written),
                                !.count = Len(pages), !.refreshes = 1,
                                !.single_calls = Len(pages), !.stored = done,
                                !.raised = IF stage = "refresh"
                                           THEN "Exception" ELSE "none"]

\* load()'s loop takes the next index definition; _process_index routes it
\* to _process_about_file_index, which loads the about pages
ProcessAboutIndex ==
  /\ pc = "for_index"
  /\ idx <= n_indices
  /\ indices[idx].type = "about_file"
  /\ index_config' = AboutDef(indices[idx].index_name)
  /\ \E prior \in PriorIndexStates,
        stage \in {"none", "delete", "create", "refresh"},
        fail_at \in 0..Len(NumberedPages(AboutFileContent(config.about_file))) :
       /\ stage = "delete" => config.clear_existing_indices
       /\ stage = "create" => config.allow_index_creation
       /\ IF config.about_file = ""
          THEN /\ stage = "none" /\ fail_at = 0
               /\ os_index' = prior
               /\ hist' = NoHist
               /\ Return(0)
          ELSE LET r == LoadAboutPage(prior, config, config.about_file, stage,
                                      fail_at)
               IN /\ stage \in {"delete", "create", "refresh"} => fail_at = 0
                  /\ os_index' = r.index
                  /\ hist' = [NoHist EXCEPT
                               !.wrote = r.stored > 0,
                               !.refreshes = r.refreshes,
                               !.dirty = r.stored > 0 /\ r.refreshes = 0,
                               !.aux_bulk_calls = r.bulk_calls,
                               !.aux_single_calls = r.single_calls]
                  /\ IF r.raised # "none" THEN Raise(r.raised)
                     ELSE Return(r.count)
  /\ total_documents' = 0
  /\ total_updates' = 0
  /\ u' = 0
  /\ query_duration' = 0
  /\ UNCHANGED <<runVars, queryVars, idx, index_stats, last_query_time>>

\* _process_query_index, lines 516-519
QIDelete ==
  /\ pc = "qi_delete"
  /\ \E fail \in BOOLEAN :
       /\ fail => config.clear_existing_indices
       /\ IF fail
          THEN Raise("Exception") /\ UNCHANGED os_index
          ELSE /\ Goto("qi_create")
               /\ os_index' = IF config.clear_existing_indices
                              THEN DeleteIndex(os_index) ELSE os_index
  /\ UNCHANGED <<runVars, index_config, queryVars, idx, index_stats, u, last_query_time,
                 query_duration, total_documents, total_updates, hist>>

\* _process_query_index, lines 521-526
QICreate ==
  /\ pc = "qi_create"
  /\ \E fail \in BOOLEAN :
       /\ fail => config.allow_index_creation
       /\ IF fail
          THEN Raise("Exception") /\ UNCHANGED os_index
          ELSE /\ Goto("qi_initial")
               /\ IF config.allow_index_creation
                  THEN os_index' \in {CreateIndex(os_index),
                                      RecreateIndex(os_index)}
                  ELSE os_index' = os_index
  /\ UNCHANGED <<runVars, index_config, queryVars, idx, index_stats, u, last_query_time,
                 query_duration, total_documents, total_updates, hist>>

\* a query starts: its definition is read and the generator is created
StartQuery(qc, recs) ==
  /\ qcfg' = qc
  /\ records' = recs
  /\ gen' = NewGen(FALSE)
  /\ page' = <<>>
  /\ page_num' = 0
  /\ first_page_validated' = FALSE
  /\ executions' = <<>>
  /\ yielded' = <<>>
  /\ attempts' = <<>>

\* _process_query_index, lines 528-548
QIInitial ==
  /\ pc = "qi_initial"
  /\ IF ~Def.initial_query
     THEN Raise("ValueError") /\ UNCHANGED <<queryVars, hist>>
     ELSE \E qc \in QueryConfigs :
            IF qc.query = <<>>
            THEN Raise("ValueError") /\ UNCHANGED <<queryVars, hist>>
            ELSE /\ \E recs \in Sources :
                      /\ StartQuery(qc, recs)
                      /\ hist' = [hist EXCEPT !.matched = Len(recs),
                                               !.page_refresh = FALSE]
                 /\ Goto("iq_next")
  /\ total_documents' = 0
  /\ UNCHANGED <<runVars, index_config, idx, index_stats, os_index, u, last_query_time,
                 query_duration, total_updates>>

\* what a generator step leaves in the client and in the histories
GenEffects(step) ==
  /\ gen' = step.gen
  /\ last_query_time' = step.last_query_time
  /\ executions' =
       IF step.dispatched
       THEN Append(executions,
              [query |-> qcfg.query, params |-> step.params,
               results |-> step.results])
       ELSE executions
  /\ yielded' = IF step.outcome = "yield"
                THEN Append(yielded, step.results) ELSE yielded
  /\ page' = IF step.outcome = "yield" THEN step.results ELSE page
  /\ page_num' = IF step.outcome = "yield" THEN page_num + 1 ELSE page_num
  /\ attempts' = IF step.outcome = "yield" THEN <<>> ELSE attempts
  /\ UNCHANGED <<qcfg, records>>

\* the finally clause: the client's accumulator is read
Finally == query_duration' = last_query_time'

\* variant: every page of the initial query is validated
IQNextValidatesEveryPage ==
  /\ pc = "iq_next"
  /\ \E fail \in BOOLEAN :
       LET step == GenStep(gen, qcfg, records, last_query_time, fail)
           valid == ValidateQueryFields(step.results,
                                       ParseMapping(Def.mapping).mapping)
       IN /\ fail => step.raised = "Exception"
          /\ GenEffects(step)
          /\ CASE step.outcome = "raise" ->
                    /\ Finally
                    /\ Raise(step.raised)
                    /\ UNCHANGED <<first_page_validated, hist>>
               [] step.outcome = "stop" ->
                    /\ Finally
                    /\ Goto("iq_refresh")
                    /\ UNCHANGED <<first_page_validated, hist>>
               [] step.outcome = "yield" /\ ~valid ->
                    /\ Finally
                    /\ Return(0)
                    /\ UNCHANGED <<first_page_validated, hist>>
               [] step.outcome = "yield" /\ valid ->
                    /\ first_page_validated' = TRUE
                    /\ Goto("iq_write")
                    /\ UNCHANGED <<query_duration, hist>>
  /\ UNCHANGED <<runVars, index_config, idx, index_stats, os_index, u, total_documents,
                 total_updates>>

\* _process_query_index, lines 554-568 and 588-601: the for loop asks the
\* generator for the next page; the first page is validated
IQNext ==
  /\ pc = "iq_next"
  /\ \E fail \in BOOLEAN :
       LET step == GenStep(gen, qcfg, records, last_query_time, fail)
           valid == first_page_validated
                    \/ ValidateQueryFields(step.results,
                                           ParseMapping(Def.mapping).mapping)
       IN /\ fail => step.raised = "Exception"
          /\ GenEffects(step)
          /\ CASE step.outcome = "raise" ->
                    /\ Finally
                    /\ Raise(step.raised)
                    /\ UNCHANGED <<first_page_validated, hist>>
               [] step.outcome = "stop" ->
                    /\ Finally
                    /\ Goto("iq_refresh")
                    /\ UNCHANGED <<first_page_validated, hist>>
               [] step.outcome = "yield" /\ ~valid ->
                    /\ Finally
                    /\ Return(0)
                    /\ UNCHANGED <<first_page_validated, hist>>
               [] step.outcome = "yield" /\ valid ->
                    /\ first_page_validated' = TRUE
                    /\ Goto("iq_write")
                    /\ UNCHANGED <<query_duration, hist>>
  /\ UNCHANGED <<runVars, index_config, idx, index_stats, os_index, u, total_documents,
                 total_updates>>

\* what a bulk call leaves in the backend and in the histories
WriteEffects(r, outcome) ==
  /\ os_index' = [exists |-> os_index.exists \/ r.stored > 0, docs |-> r.docs]
  /\ attempts' = Append(attempts, [page |-> page, raised |-> r.raised,
                                 failed |-> outcome.kind = "item_failed"])
  /\ UNCHANGED <<qcfg, records, gen, page, page_num, first_page_validated,
                 executions, yielded>>

\* variant: the count grows by the documents the backend stored
IQWriteCountsStored ==
  /\ pc = "iq_write"
  /\ \E outcome \in UpsertOutcomes(page, Def.id_field) :
       LET r == BulkUpsert(os_index.docs, page, Def.id_field, outcome)
       IN /\ WriteEffects(r, outcome)
          /\ hist' = [hist EXCEPT !.wrote = @ \/ r.stored > 0,
                               !.item_failed = @ \/ outcome.kind = "item_failed",
                               !.page_refresh = @ \/ r.refresh,
                               !.dirty = @ \/ r.stored > 0]
          /\ IF r.raised
             THEN Goto("iq_retry") /\ UNCHANGED total_documents
             ELSE Goto("iq_next") /\ total_documents' = total_documents + r.stored
  /\ UNCHANGED <<runVars, index_config, idx, index_stats, u, last_query_time, query_duration,
                 total_updates>>

\* _process_query_index, lines 570-575: the first write of the page
IQWrite ==
  /\ pc = "iq_write"
  /\ \E outcome \in UpsertOutcomes(page, Def.id_field) :
       LET r == BulkUpsert(os_index.docs, page, Def.id_field, outcome)
       IN /\ WriteEffects(r, outcome)
          /\ hist' = [hist EXCEPT !.wrote = @ \/ r.stored > 0,
                               !.item_failed = @ \/ outcome.kind = "item_failed",
                               !.page_refresh = @ \/ r.refresh,
                               !.dirty = @ \/ r.stored > 0]
          /\ IF r.raised
             THEN Goto("iq_retry") /\ UNCHANGED total_documents
             ELSE Goto("iq_next") /\ total_documents' = total_documents + Len(page)
  /\ UNCHANGED <<runVars, index_config, idx, index_stats, u, last_query_time, query_duration,
                 total_updates>>

\* variant: a failed retry is retried again
IQRetryAgain ==
  /\ pc = "iq_retry"
  /\ \E outcome \in UpsertOutcomes(page, Def.id_field) :
       LET r == BulkUpsert(os_index.docs, page, Def.id_field, outcome)
       IN /\ WriteEffects(r, outcome)
          /\ hist' = [hist EXCEPT !.wrote = @ \/ r.stored > 0,
                               !.item_failed = @ \/ outcome.kind = "item_failed",
                               !.page_refresh = @ \/ r.refresh,
                               !.dirty = @ \/ r.stored > 0]
          /\ IF r.raised
             THEN Goto("iq_retry") /\ UNCHANGED total_documents
             ELSE Goto("iq_next") /\ total_documents' = total_documents + Len(page)
  /\ UNCHANGED <<runVars, index_config, idx, index_stats, u, last_query_time, query_duration,
                 total_updates>>

\* _process_query_index, lines 576-586: the retry of the page
IQRetry ==
  /\ pc = "iq_retry"
  /\ \E outcome \in UpsertOutcomes(page, Def.id_field) :
       LET r == BulkUpsert(os_index.docs, page, Def.id_field, outcome)
       IN /\ WriteEffects(r, outcome)
          /\ hist' = [hist EXCEPT !.wrote = @ \/ r.stored > 0,
                               !.item_failed = @ \/ outcome.kind = "item_failed",
                               !.page_refresh = @ \/ r.refresh,
                               !.dirty = @ \/ r.stored > 0]
          /\ IF r.raised
             THEN /\ Raise("Exception")
                  /\ query_duration' = last_query_time
                  /\ UNCHANGED total_documents
             ELSE /\ Goto("iq_next")
                  /\ total_documents' = total_documents + Len(page)
                  /\ UNCHANGED query_duration
  /\ UNCHANGED <<runVars, index_config, idx, index_stats, u, last_query_time, total_updates>>

\* variant: the update queries start without a refresh of the index
IQRefreshSkipped ==
  /\ pc = "iq_refresh"
  /\ Goto("uq_loop")
  /\ QueryIdle
  /\ u' = 1
  /\ UNCHANGED <<runVars, index_config, idx, index_stats, os_index,
                 last_query_time, query_duration, total_documents,
                 total_updates, hist>>

\* _process_query_index, lines 603-604: refresh after the initial query
IQRefresh ==
  /\ pc = "iq_refresh"
  /\ \E fail \in BOOLEAN :
       /\ IF fail
          THEN Raise("Exception")
               /\ UNCHANGED <<queryVars, u>>
          ELSE Goto("uq_loop") /\ QueryIdle /\ u' = 1
  /\ os_index' = RefreshIndex(os_index)
  /\ hist' = [hist EXCEPT !.refreshes = @ + 1, !.dirty = FALSE]
  /\ UNCHANGED <<runVars, index_config, idx, index_stats, last_query_time,
                 query_duration, total_documents, total_updates>>

\* the update query loop takes the next update query;
\* _process_update_query, lines 801-826
UQStart ==
  /\ pc = "uq_loop"
  /\ u <= Def.update_queries
  /\ \E qc \in QueryConfigs :
       IF qc.query = <<>>
       THEN /\ u' = u + 1
            /\ Goto("uq_loop")
            /\ UNCHANGED <<queryVars, hist>>
       ELSE /\ \E recs \in Sources : StartQuery(qc, recs)
            /\ Goto("uq_next")
            /\ hist' = [hist EXCEPT !.updates_started = @ + 1,
                                     !.page_refresh = FALSE]
            /\ UNCHANGED u
  /\ total_updates' = 0
  /\ UNCHANGED <<runVars, index_config, idx, index_stats, os_index, last_query_time,
                 query_duration, total_documents>>

\* an exception leaves _process_update_query: the loop of
\* _process_query_index absorbs a ValueError and stops (lines 609-614)
UpdateRaise(kind) ==
  IF kind = "ValueError" THEN Goto("uq_break") ELSE Raise(kind)

\* _process_update_query, lines 832-846 and 880-899
UQNext ==
  /\ pc = "uq_next"
  /\ \E fail \in BOOLEAN :
       LET step == GenStep(gen, qcfg, records, last_query_time, fail)
           valid == first_page_validated
                    \/ ValidateQueryFields(step.results,
                                           ParseMapping(Def.mapping).mapping)
       IN /\ fail => step.raised = "Exception"
          /\ GenEffects(step)
          /\ CASE step.outcome = "raise" ->
                    /\ Finally
                    /\ UpdateRaise(step.raised)
                    /\ UNCHANGED <<first_page_validated, hist>>
               [] step.outcome = "stop" ->
                    /\ Finally
                    /\ Goto("uq_end")
                    /\ UNCHANGED <<first_page_validated, hist>>
               [] step.outcome = "yield" /\ ~valid ->
                    /\ Finally
                    /\ UpdateRaise("ValueError")
                    /\ UNCHANGED <<first_page_validated, hist>>
               [] step.outcome = "yield" /\ valid ->
                    /\ first_page_validated' = TRUE
                    /\ Goto("uq_write")
                    /\ UNCHANGED <<query_duration, hist>>
  /\ UNCHANGED <<runVars, index_config, idx, index_stats, os_index, u, total_documents,
                 total_updates>>

\* variant: a page whose bulk call returned failed items is retried
UQWriteRetriesFailed ==
  /\ pc = "uq_write"
  /\ \E batch \in 1..Len(UpdateBatches(page)) :
     \E outcome \in UpdateOutcomes(os_index.docs, page, Def.id_field, batch) :
       LET r == BulkUpdate(os_index.docs, page, Def.id_field, batch, outcome)
       IN /\ WriteEffects(r, outcome)
          /\ hist' = [hist EXCEPT !.wrote = @ \/ r.stored > 0,
                               !.item_failed = @ \/ outcome.kind = "item_failed",
                               !.page_refresh = @ \/ r.refresh,
                               !.dirty = @ \/ r.stored > 0]
          /\ IF r.raised \/ outcome.kind = "item_failed"
             THEN Goto("uq_retry") /\ UNCHANGED total_updates
             ELSE Goto("uq_next") /\ total_updates' = total_updates + Len(page)
  /\ UNCHANGED <<runVars, index_config, idx, index_stats, u, last_query_time, query_duration,
                 total_documents>>

\* _process_update_query, lines 848-859: the first write of the page
UQWrite ==
  /\ pc = "uq_write"
  /\ \E batch \in 1..Len(UpdateBatches(page)) :
     \E outcome \in UpdateOutcomes(os_index.docs, page, Def.id_field, batch) :
       LET r == BulkUpdate(os_index.docs, page, Def.id_field, batch, outcome)
       IN /\ WriteEffects(r, outcome)
          /\ hist' = [hist EXCEPT !.wrote = @ \/ r.stored > 0,
                               !.item_failed = @ \/ outcome.kind = "item_failed",
                               !.page_refresh = @ \/ r.refresh,
                               !.dirty = @ \/ r.stored > 0]
          /\ IF r.raised
             THEN Goto("uq_retry") /\ UNCHANGED total_updates
             ELSE Goto("uq_next") /\ total_updates' = total_updates + Len(page)
  /\ UNCHANGED <<runVars, index_config, idx, index_stats, u, last_query_time, query_duration,
                 total_documents>>

\* variant: after a failed retry the update query goes on with its next page
UQRetryGoesOn ==
  /\ pc = "uq_retry"
  /\ \E batch \in 1..Len(UpdateBatches(page)) :
     \E outcome \in UpdateOutcomes(os_index.docs, page, Def.id_field, batch) :
       LET r == BulkUpdate(os_index.docs, page, Def.id_field, batch, outcome)
       IN /\ WriteEffects(r, outcome)
          /\ hist' = [hist EXCEPT !.wrote = @ \/ r.stored > 0,
                               !.item_failed = @ \/ outcome.kind = "item_failed",
                               !.page_refresh = @ \/ r.refresh,
                               !.dirty = @ \/ r.stored > 0]
          /\ Goto("uq_next")
          /\ total_updates' = IF r.raised THEN total_updates
                              ELSE total_updates + Len(page)
  /\ UNCHANGED <<runVars, index_config, idx, index_stats, u, last_query_time, query_duration,
                 total_documents>>

\* _process_update_query, lines 860-878: the retry of the page
UQRetry ==
  /\ pc = "uq_retry"
  /\ \E batch \in 1..Len(UpdateBatches(page)) :
     \E outcome \in UpdateOutcomes(os_index.docs, page, Def.id_field, batch) :
       LET r == BulkUpdate(os_index.docs, page, Def.id_field, batch, outcome)
       IN /\ WriteEffects(r, outcome)
          /\ hist' = [hist EXCEPT !.wrote = @ \/ r.stored > 0,
                               !.item_failed = @ \/ outcome.kind = "item_failed",
                               !.page_refresh = @ \/ r.refresh,
                               !.dirty = @ \/ r.stored > 0]
          /\ IF r.raised
             THEN /\ UpdateRaise("Exception")
                  /\ query_duration' = last_query_time
                  /\ UNCHANGED total_updates
             ELSE /\ Goto("uq_next")
                  /\ total_updates' = total_updates + Len(page)
                  /\ UNCHANGED query_duration
  /\ UNCHANGED <<runVars, index_config, idx, index_stats, u, last_query_time, total_documents>>

\* _process_update_query returned: the loop goes to the next update query
UQEnd ==
  /\ pc = "uq_end"
  /\ u' = u + 1
  /\ Goto("uq_loop")
  /\ QueryIdle
  /\ UNCHANGED <<runVars, index_config, idx, index_stats, os_index, last_query_time,
                 query_duration, total_documents, total_updates, hist>>

\* variant: _process_query_index returns without the final refresh
UQRefreshSkipped ==
  /\ \/ pc = "uq_loop" /\ u > Def.update_queries
     \/ pc = "uq_break"
  /\ Return(total_documents)
  /\ UNCHANGED <<runVars, index_config, queryVars, idx, index_stats, u,
                 last_query_time, query_duration, total_documents,
                 total_updates, os_index, hist>>

\* _process_query_index, lines 616-620: the loop over the update queries
\* is over or was left; refresh when there are update queries; return
UQRefresh ==
  /\ \/ pc = "uq_loop" /\ u > Def.update_queries
     \/ pc = "uq_break"
  /\ \E fail \in BOOLEAN :
       /\ fail => Def.update_queries > 0
       /\ IF fail
          THEN Raise("Exception")
          ELSE Return(total_documents)
  /\ os_index' = IF Def.update_queries > 0
                 THEN RefreshIndex(os_index) ELSE os_index
  /\ hist' = IF Def.update_queries > 0
             THEN [hist EXCEPT !.refreshes = @ + 1, !.dirty = FALSE]
             ELSE hist
  /\ UNCHANGED <<runVars, index_config, queryVars, idx, index_stats, u,
                 last_query_time, query_duration, total_documents,
                 total_updates>>

\* the index is over: its locals and histories are dropped
IndexIdle ==
  /\ QueryIdle
  /\ index_config' = NoDef
  /\ exc' = "none"
  /\ ret' = 0
  /\ os_index' = NoIndex
  /\ u' = 0
  /\ query_duration' = 0
  /\ total_documents' = 0
  /\ total_updates' = 0
  /\ hist' = NoHist

\* load(), lines 155-165: _process_index returned
RecordSuccess ==
  /\ pc = "returned"
  /\ index_stats' = Append(index_stats, SuccessStat(Def.index_name, ret))
  /\ idx' = idx + 1
  /\ pc' = "for_index"
  /\ IndexIdle
  /\ UNCHANGED <<runVars, last_query_time, outcomes>>

\* variant: an exception of one index ends the run
RecordErrorStops ==
  /\ pc = "except"
  /\ index_stats' = Append(index_stats, ErrorStat(Def.index_name))
  /\ idx' = idx + 1
  /\ pc' = "done"
  /\ IndexIdle
  /\ UNCHANGED <<runVars, last_query_time, outcomes>>

\* load(), lines 166-179: _process_index raised
RecordError ==
  /\ pc = "except"
  /\ index_stats' = Append(index_stats, ErrorStat(Def.index_name))
  /\ idx' = idx + 1
  /\ pc' = "for_index"
  /\ IndexIdle
  /\ UNCHANGED <<runVars, last_query_time, outcomes>>

\* variant: the summary is written as soon as an index has been recorded
SummaryEarly ==
  /\ pc = "for_index"
  /\ idx > 1
  /\ pc' = "done"
  /\ UNCHANGED <<runVars, index_config, queryVars, idx, index_stats, exc, ret, os_index, u,
                 last_query_time, query_duration, total_documents,
                 total_updates, hist, outcomes>>

\* load(), lines 181-187: the loop is over, the summary is written
Summary ==
  /\ pc = "for_index"
  /\ idx > n_indices
  /\ pc' = "done"
  /\ UNCHANGED <<runVars, index_config, queryVars, idx, index_stats, exc, ret, os_index, u,
                 last_query_time, query_duration, total_documents,
                 total_updates, hist, outcomes>>

Next ==
  \/ Load
  \/ ProcessIndex
  \/ ProcessModelIndex
  \/ ProcessAboutIndex
  \/ QIDelete
  \/ QICreate
  \/ QIInitial
  \/ IQNext
  \/ IQWrite
  \/ IQRetry
  \/ IQRefresh
  \/ UQStart
  \/ UQNext
  \/ UQWrite
  \/ UQRetry
  \/ UQEnd
  \/ UQRefresh
  \/ RecordSuccess
  \/ RecordError
  \/ Summary

Spec == Init /\ [][Next]_vars

\* the run as the interpreter carries it out: load() is one synchronous
\* thread, so a step that can be taken is taken
SpecLive == Spec /\ WF_vars(Next)

\* ------------------------------------------- the pagination call alone
\* query texts longer than MaxQueryLen: a mutating keyword between spaces,
\* in lower case, and as part of a longer word
TextLower == <<"MATCH", " ", "set", " ", "$skip", " ", "$limit">>
TextSubword == <<"MATCH", " ", "x", "SET", " ", "$skip", " ", "$limit">>

\* what the graph holds for a query of a pagination call on its own
PageSources == {[i \in 1..n |-> MappedRecord(i)] : n \in 0..(2 * MaxRecords)}

\* the calls of execute_paginated_query: any text of up to MaxQueryLen
\* fragments, and well-formed or longer texts with any variables, page
\* size, test mode and graph content
PageCalls ==
  {[query |-> t, variables |-> NoVariables, page_size |-> 1,
    test_mode |-> FALSE, records |-> <<G1, U2>>] : t \in QueryTexts}
  \cup
  {[query |-> t, variables |-> v, page_size |-> p, test_mode |-> tm,
    records |-> recs] :
     t \in {TextOK, TextWrite, TextNoLimit, TextLower, TextSubword},
     v \in {NoVariables, ClashVariables},
     p \in 1..MaxPageSize, tm \in BOOLEAN, recs \in PageSources}

\* a caller holds a generator of execute_paginated_query it has not started
InitPage ==
  /\ config = [clear_existing_indices |-> FALSE, allow_index_creation |-> FALSE,
               test_mode |-> FALSE, about_file |-> ""]
  /\ indices = <<>>
  /\ selected_indices = <<>>
  /\ model_files = <<>>
  /\ model = NoModel
  /\ index_config = NoDef
  /\ pc = "paginate"
  /\ idx = 0
  /\ index_stats = <<>>
  /\ exc = "none"
  /\ ret = 0
  /\ os_index = NoIndex
  /\ u = 0
  /\ \E call \in PageCalls :
       /\ qcfg = [query |-> call.query, variables |-> call.variables,
                  page_size |-> call.page_size]
       /\ records = call.records
       /\ gen = NewGen(call.test_mode)
  /\ last_query_time = 0
  /\ query_duration = 0
  /\ page = <<>>
  /\ page_num = 0
  /\ total_documents = 0
  /\ total_updates = 0
  /\ first_page_validated = FALSE
  /\ executions = <<>>
  /\ yielded = <<>>
  /\ attempts = <<>>
  /\ hist = NoHist
  /\ outcomes = <<>>
  /\ client_call = NoCall

\* the caller asks the generator for the next page; exc: what the
\* generator raised
PageNext ==
  /\ pc = "paginate"
  /\ gen.state \in {"new", "suspended"}
  /\ \E fail \in BOOLEAN :
       LET step == GenStep(gen, qcfg, records, last_query_time, fail)
       IN /\ fail => step.raised = "Exception"
          /\ GenEffects(step)
          /\ exc' = step.raised
  /\ UNCHANGED <<runVars, index_config, pc, idx, index_stats, ret, os_index, u,
                 query_duration, total_documents, total_updates,
                 first_page_validated, hist, outcomes>>

NextPage == PageNext

SpecPage == InitPage /\ [][NextPage]_vars

\* ------------------------------------------------ the client alone
\* records handed to the client: the records of the queries, among them
\* two with the same id and one without an id
BulkPages == SeqsUpTo({G1, U2, X1, N0}, MaxRecords)

\* the documents of the index before the call
BulkIndexStates ==
  {[exists |-> TRUE, docs |-> d] :
     d \in {EmptyDict, (2 :> StaleDoc), (1 :> G1) @@ (2 :> StaleDoc)}}

\* records handed to merge_document: fields some documents have and fields
\* they lack
MergeRecords ==
  {(<<"a">> :> Scalar(2)) @@ (<<"b">> :> Scalar(3)),
   (<<"a">> :> Scalar(3)) @@ (<<"x">> :> Scalar(2))}

\* a caller holds an OpenSearchClient, an index and a page of records
InitBulk ==
  /\ config = [clear_existing_indices |-> FALSE, allow_index_creation |-> FALSE,
               test_mode |-> FALSE, about_file |-> ""]
  /\ indices = <<>>
  /\ selected_indices = <<>>
  /\ model_files = <<>>
  /\ model = NoModel
  /\ index_config = QueryDef(IdKey, <<>>, FALSE, 0)
  /\ pc = "client"
  /\ idx = 0
  /\ index_stats = <<>>
  /\ exc = "none"
  /\ ret = 0
  /\ os_index \in BulkIndexStates
  /\ u = 0
  /\ qcfg = NoQuery
  /\ records = <<>>
  /\ gen = NoGen
  /\ last_query_time = 0
  /\ query_duration = 0
  /\ page \in BulkPages
  /\ page_num = 0
  /\ total_documents = 0
  /\ total_updates = 0
  /\ first_page_validated = FALSE
  /\ executions = <<>>
  /\ yielded = <<>>
  /\ attempts = <<>>
  /\ hist = NoHist
  /\ outcomes = <<>>
  /\ client_call = NoCall

\* what the calls on the client leave alone
clientVars ==
  <<config, indices, selected_indices, model_files, model, index_config, pc,
    idx, index_stats, exc, ret, u, queryVars, last_query_time, query_duration,
    total_documents, total_updates, hist, outcomes>>

\* bulk_upsert(index_name, page, id_field)
ClientBulkUpsert ==
  /\ pc = "client"
  /\ client_call = NoCall
  /\ \E outcome \in UpsertOutcomes(page, Def.id_field) :
       LET r == BulkUpsert(os_index.docs, page, Def.id_field, outcome)
       IN /\ os_index' = [os_index EXCEPT !.docs = r.docs]
          /\ client_call' = [client_call EXCEPT !.op = "bulk_upsert",
                                  !.before = os_index.docs,
                                  !.outcome = outcome,
                                  !.raised = r.raised,
                                  !.runs = 1,
                                  !.first = r.docs,
                                  !.first_outcome = outcome]
  /\ UNCHANGED clientVars

\* bulk_upsert(index_name, page, id_field) called a second time with the
\* same page
ClientBulkUpsertAgain ==
  /\ pc = "client"
  /\ client_call.op = "bulk_upsert"
  /\ client_call.runs = 1
  /\ client_call.merges = EmptyDict
  /\ ~client_call.merge_raised
  /\ \E outcome \in UpsertOutcomes(page, Def.id_field) :
       LET r == BulkUpsert(os_index.docs, page, Def.id_field, outcome)
       IN /\ os_index' = [os_index EXCEPT !.docs = r.docs]
          /\ client_call' = [client_call EXCEPT !.outcome = outcome,
                                                !.raised = r.raised,
                                                !.runs = 2]
  /\ UNCHANGED clientVars

\* bulk_update(index_name, page, id_field)
ClientBulkUpdate ==
  /\ pc = "client"
  /\ client_call = NoCall
  /\ page # <<>>
  /\ \E batch \in 1..Len(UpdateBatches(page)) :
     \E outcome \in UpdateOutcomes(os_index.docs, page, Def.id_field, batch) :
       LET r == BulkUpdate(os_index.docs, page, Def.id_field, batch, outcome)
       IN /\ os_index' = [os_index EXCEPT !.docs = r.docs]
          /\ client_call' = [client_call EXCEPT !.op = "bulk_update",
                                  !.before = os_index.docs,
                                  !.outcome = outcome,
                                  !.raised = r.raised,
                                  !.runs = 1,
                                  !.first = r.docs,
                                  !.first_outcome = outcome]
  /\ UNCHANGED clientVars

\* merge_document(index_name, doc_id, updates), for an id not merged yet;
\* fail: the backend raises in get_document or in upsert_document
ClientMergeDocument ==
  /\ pc = "client"
  /\ client_call.op \in {"none", "bulk_upsert"}
  /\ client_call.runs <= 1
  /\ ~client_call.raised
  /\ ~client_call.merge_raised
  /\ \E doc_id \in {1, 2} \ DOMAIN client_call.merges, updates \in MergeRecords,
        fail \in BOOLEAN :
       IF fail
       THEN /\ client_call' = [client_call EXCEPT !.merge_raised = TRUE]
            /\ UNCHANGED os_index
       ELSE /\ os_index' = [os_index EXCEPT
                              !.docs = MergeDocument(@, doc_id, updates)]
            /\ client_call' = [client_call EXCEPT
                          !.merges = DictMerge(@, [i \in {doc_id} |-> updates])]
  /\ UNCHANGED clientVars

NextBulk ==
  \/ ClientBulkUpsert
  \/ ClientBulkUpsertAgain
  \/ ClientBulkUpdate
  \/ ClientMergeDocument

SpecBulk == InitBulk /\ [][NextBulk]_vars

\* ------------------------------------------------------ _parse_mapping alone
\* at most MaxFields field names under one type of a declaration
MaxFields == 2

\* the field names of the declarations: top-level names and properties
\* of two parents
MapFieldNames ==
  {<<"a">>, <<"b">>, <<"p", "a">>, <<"p", "b">>, <<"q", "a">>}

\* the types of the declarations; a declaration is a dict, so a type
\* occurs once in it
MapTypes == {"keyword", "text"}

\* the grouped mapping declarations: no type, one type, or both types in
\* either order
MappingConfigs ==
  {<<>>}
  \cup {<<[type |-> t, is_list |-> TRUE, fields |-> fs]>> :
          t \in MapTypes, fs \in SeqsUpTo(MapFieldNames, MaxFields)}
  \cup {d \in {<<[type |-> t1, is_list |-> TRUE, fields |-> fs1],
                  [type |-> t2, is_list |-> TRUE, fields |-> fs2]>> :
                  t1 \in MapTypes, t2 \in MapTypes,
                  fs1 \in SeqsUpTo(MapFieldNames, MaxFields),
                  fs2 \in SeqsUpTo(MapFieldNames, MaxFields)} :
          d[1].type # d[2].type}

InitMap ==
  /\ config = [clear_existing_indices |-> FALSE, allow_index_creation |-> FALSE,
               test_mode |-> FALSE, about_file |-> ""]
  /\ indices = <<>>
  /\ selected_indices = <<>>
  /\ model_files = <<>>
  /\ model = NoModel
  /\ \E mapping_config \in MappingConfigs :
       index_config = QueryDef(IdKey, mapping_config, FALSE, 0)
  /\ pc = "parse"
  /\ idx = 0
  /\ index_stats = <<>>
  /\ exc = "none"
  /\ ret = 0
  /\ os_index = NoIndex
  /\ u = 0
  /\ qcfg = NoQuery
  /\ records = <<>>
  /\ gen = NoGen
  /\ last_query_time = 0
  /\ query_duration = 0
  /\ page = <<>>
  /\ page_num = 0
  /\ total_documents = 0
  /\ total_updates = 0
  /\ first_page_validated = FALSE
  /\ executions = <<>>
  /\ yielded = <<>>
  /\ attempts = <<>>
  /\ hist = NoHist
  /\ outcomes = <<>>
  /\ client_call = NoCall

\* _parse_mapping(mapping_config) is called: it returns a mapping or raises
\* ValueError
ParseMappingCall ==
  /\ pc = "parse"
  /\ pc' = "parsed"
  /\ LET r == ParseMapping(Def.mapping)
     IN /\ exc' = IF r.ok THEN "none" ELSE "ValueError"
        /\ ret' = Cardinality(DOMAIN r.mapping)
        /\ outcomes' = Append(outcomes, IF r.ok THEN "returned" ELSE "raised")
  /\ UNCHANGED <<runVars, index_config, queryVars, idx, index_stats, os_index,
                 u, last_query_time, query_duration, total_documents,
                 total_updates, hist>>

NextMap == ParseMappingCall

SpecMap == InitMap /\ [][NextMap]_vars

\* ----------------------------------------------- _validate_query_fields alone
\* values of a record besides scalars: a nested map and a list
DictValue(doc) == [k |-> "dict", v |-> doc]
ListValue(values) == [k |-> "list", v |-> values]

\* records with nested maps, lists of objects and a key with a dot
ValidatorRecords ==
  {G1, X1,
   (<<"p">> :> DictValue((<<"a">> :> Scalar(1)))),
   (<<"p">> :> DictValue((<<"z">> :> Scalar(1)))),
   (<<"p">> :> ListValue(<<DictValue((<<"a">> :> Scalar(1))),
                           DictValue((<<"z">> :> Scalar(1)))>>)),
   (<<"p">> :> ListValue(<<DictValue((<<"z">> :> Scalar(1))),
                           DictValue((<<"a">> :> Scalar(1)))>>)),
   (<<"p">> :> ListValue(<<Scalar(1), DictValue((<<"z">> :> Scalar(1)))>>)),
   (<<"a">> :> ListValue(<<>>)),
   (<<"p">> :> DictValue((<<"a">> :> DictValue((<<"b">> :> Scalar(1)))))),
   (<<"q">> :> DictValue((<<"a">> :> Scalar(1)))),
   (<<"p", "a">> :> Scalar(1))}

ValidatorPages == SeqsUpTo(ValidatorRecords, MaxRecords)

\* mapping declarations: p an object with properties, p a plain field, p
\* an object without properties, and q a plain field beside the object p
ValidatorMappings ==
  {<<[type |-> "keyword", is_list |-> TRUE, fields |-> << <<"id">>, <<"a">> >>],
     [type |-> "text", is_list |-> TRUE, fields |-> << <<"p", "a">> >>]>>,
   <<[type |-> "keyword", is_list |-> TRUE, fields |-> << <<"id">>, <<"p">> >>]>>,
   <<[type |-> "object", is_list |-> TRUE, fields |-> << <<"p">> >>],
     [type |-> "keyword", is_list |-> TRUE, fields |-> << <<"id">> >>]>>,
   <<[type |-> "keyword", is_list |-> TRUE,
      fields |-> << <<"id">>, <<"a">>, <<"q">> >>],
     [type |-> "text", is_list |-> TRUE,
      fields |-> << <<"p", "a">>, <<"p", "b">> >>]>>}

InitValidate ==
  /\ config = [clear_existing_indices |-> FALSE, allow_index_creation |-> FALSE,
               test_mode |-> FALSE, about_file |-> ""]
  /\ indices = <<>>
  /\ selected_indices = <<>>
  /\ model_files = <<>>
  /\ model = NoModel
  /\ \E mapping_config \in ValidatorMappings :
       index_config = QueryDef(IdKey, mapping_config, FALSE, 0)
  /\ pc = "validate"
  /\ idx = 0
  /\ index_stats = <<>>
  /\ exc = "none"
  /\ ret = 0
  /\ os_index = NoIndex
  /\ u = 0
  /\ qcfg = NoQuery
  /\ records = <<>>
  /\ gen = NoGen
  /\ last_query_time = 0
  /\ query_duration = 0
  /\ page \in ValidatorPages
  /\ page_num = 0
  /\ total_documents = 0
  /\ total_updates = 0
  /\ first_page_validated = FALSE
  /\ executions = <<>>
  /\ yielded = <<>>
  /\ attempts = <<>>
  /\ hist = NoHist
  /\ outcomes = <<>>
  /\ client_call = NoCall

\* _validate_query_fields(index_name, page, parsed_mapping) is called; its
\* result is kept in first_page_validated
ValidateCall ==
  /\ pc = "validate"
  /\ pc' = "validated"
  /\ first_page_validated' =
       ValidateQueryFields(page, ParseMapping(Def.mapping).mapping)
  /\ UNCHANGED <<runVars, index_config, idx, index_stats, exc, ret, os_index,
                 u, qcfg, records, gen, last_query_time, query_duration, page,
                 page_num, total_documents, total_updates, executions,
                 yielded, attempts, hist, outcomes>>

NextValidate == ValidateCall

SpecValidate == InitValidate /\ [][NextValidate]_vars

\* ----------------------------------------------------------- bulk_update alone
\* pages of up to MaxBatches full batches and a few records more
MaxBatches == 2

\* an update that carries nothing but its id
IdOnly == (<<"id">> :> Scalar(1))

\* the kinds of records of a long page, repeated in this order
UpdateKinds == <<G1, U2, IdOnly, N0, X1>>

\* the page of n records that starts with kind number shift + 1
LongPage(n, shift) ==
  [i \in 1..n |-> UpdateKinds[((i + shift - 1) % Len(UpdateKinds)) + 1]]

\* page lengths: short pages, and lengths around the multiples of BATCH_SIZE
PageLengths ==
  (0..3) \cup {k * BATCH_SIZE + d : k \in 1..MaxBatches, d \in (0 - 2)..2}

InitBatch ==
  /\ config = [clear_existing_indices |-> FALSE, allow_index_creation |-> FALSE,
               test_mode |-> FALSE, about_file |-> ""]
  /\ indices = <<>>
  /\ selected_indices = <<>>
  /\ model_files = <<>>
  /\ model = NoModel
  /\ index_config = QueryDef(IdKey, <<>>, FALSE, 0)
  /\ pc = "update"
  /\ idx = 0
  /\ index_stats = <<>>
  /\ exc = "none"
  /\ ret = 0
  /\ os_index = NoIndex
  /\ u = 0
  /\ qcfg = NoQuery
  /\ records = <<>>
  /\ gen = NoGen
  /\ last_query_time = 0
  /\ query_duration = 0
  /\ \E n \in PageLengths, shift \in 0..(Len(UpdateKinds) - 1) :
       page = LongPage(n, shift)
  /\ page_num = 0
  /\ total_documents = 0
  /\ total_updates = 0
  /\ first_page_validated = FALSE
  /\ executions = <<>>
  /\ yielded = <<>>
  /\ attempts = <<>>
  /\ hist = NoHist
  /\ outcomes = <<>>
  /\ client_call = NoCall

\* bulk_update(index_name, page, id_field) is called: the batches are cut
\* and handed to _process_update_batch one after the other, until one of
\* them raises (raising: its number, 0 when none does); yielded keeps the
\* batches handed over, attempts the actions sent for each of them
BulkUpdateCall ==
  /\ pc = "update"
  /\ pc' = "updated"
  /\ \E raising \in 0..Len(UpdateBatches(page)) :
       LET batches == UpdateBatches(page)
           handed == IF raising = 0 THEN Len(batches) ELSE raising
       IN /\ raising > 0 => UpdateActions(batches[raising], Def.id_field) # <<>>
          /\ yielded' = SubSeq(batches, 1, handed)
          /\ attempts' = [b \in 1..handed |->
                            UpdateActions(batches[b], Def.id_field)]
          /\ exc' = IF raising > 0 THEN "Exception" ELSE "none"
  /\ UNCHANGED <<runVars, index_config, idx, index_stats, ret, os_index, u,
                 qcfg, records, gen, last_query_time, query_duration, page,
                 page_num, total_documents, total_updates,
                 first_page_validated, executions, hist, outcomes>>

NextBatch == BulkUpdateCall

SpecBatch == InitBatch /\ [][NextBatch]_vars

\* ================================================================ claims
\* ------------------------------------------------------------------- C1
\* C1: when processing an index raises, the run records exactly one
\* statistic for it, with document_count ERROR and the error flag, and goes
\* on to the next index: the statistics hold one entry per index processed
\* so far, in order; the entry of an index whose processing raised is the
\* ERROR entry; wherever the loop stands it is at the index after the last
\* recorded one; and the run ends with one entry for every index.
C1_FaultIsolation ==
  /\ Len(outcomes) =
       Len(index_stats) + (IF pc \in {"except", "returned"} THEN 1 ELSE 0)
  /\ \A i \in 1..Len(index_stats) :
       /\ index_stats[i].index_name = indices[i].index_name
       /\ outcomes[i] = "raised" =>
            /\ index_stats[i].document_count = ERROR
            /\ index_stats[i].error
  /\ pc = "for_index" => idx = Len(index_stats) + 1
  /\ pc = "done" => Len(index_stats) = n_indices

\* the first index raised, the second one was processed and wrote documents
C1_Witness ==
  /\ pc = "done"
  /\ n_indices = 2
  /\ outcomes = <<"raised", "returned">>
  /\ index_stats[1].document_count = ERROR
  /\ index_stats[2].document_count > 0

\* ------------------------------------------------------------------- C2
\* C2: the write of a page is attempted at most twice; a second attempt
\* happens only when the first one raised, and every attempt submits the
\* page the generator yielded last.
C2_AtMostTwoAttempts ==
  /\ Len(attempts) <= 2
  /\ Len(attempts) = 2 => attempts[1].raised
  /\ \A i \in 1..Len(attempts) :
       /\ attempts[i].page = page
       /\ yielded # <<>>
       /\ attempts[i].page = yielded[Len(yielded)]

\* the first attempt of a page of an update query raised, the retry did not
C2_Witness ==
  /\ pc = "uq_next"
  /\ Len(attempts) = 2
  /\ attempts[1].raised
  /\ ~attempts[2].raised

\* ------------------------------------------------------------------- C3
\* both write attempts of the current page raised
DoubleFailure == Len(attempts) = 2 /\ attempts[2].raised

\* C3: when the first attempt and the retry of a page both fail, the
\* exception is on its way out of the index (no page is fetched or written,
\* no update query is started), and the next step records the ERROR
\* statistic and moves the loop to the next index.
C3_DoubleFailureAborts ==
  /\ [](DoubleFailure => pc = "except" /\ exc = "Exception")
  /\ [][DoubleFailure =>
          /\ pc' = "for_index"
          /\ idx' = idx + 1
          /\ index_stats' =
               Append(index_stats, ErrorStat(indices[idx].index_name))
          /\ os_index' = NoIndex
          /\ executions' = <<>>]_vars

\* the page of the first of two update queries failed twice, more records
\* of that query are left, and another index follows
C3_Witness ==
  /\ DoubleFailure
  /\ hist.updates_started = 1
  /\ Def.update_queries = 2
  /\ Len(records) > gen.offset + qcfg.page_size
  /\ idx < n_indices

\* ------------------------------------------------------------------- C4
\* the result of an execution is empty or shorter than page_size
ShortOrEmpty(e) == Len(e.results) < qcfg.page_size

\* C4: an execution whose result is empty or short is the last one of the
\* pagination call; every yielded page is the non-empty result of the
\* execution of the same position, so an empty result is not yielded and a
\* short one is yielded last; and outside test mode a call that ended
\* without an exception ended at such an execution.
C4_EndsAtShortStep ==
  /\ \A k \in 1..Len(executions) :
       ShortOrEmpty(executions[k]) => k = Len(executions)
  /\ \A i \in 1..Len(yielded) :
       /\ yielded[i] # <<>>
       /\ i <= Len(executions)
       /\ yielded[i] = executions[i].results
  /\ \A k \in 1..Len(executions) :
       executions[k].results # <<>> => k <= Len(yielded)
  /\ (gen.state = "done" /\ exc = "none" /\ ~gen.test_mode) =>
       /\ executions # <<>>
       /\ ShortOrEmpty(executions[Len(executions)])

\* a full page, then a short page yielded last, then the end with no
\* further execution
C4_Witness ==
  /\ gen.state = "done"
  /\ exc = "none"
  /\ qcfg.page_size = 2
  /\ Len(executions) = 2
  /\ Len(yielded) = 2
  /\ Len(yielded[2]) = 1

\* ------------------------------------------------------------------- C5
Ceil(n, p) == (n + p - 1) \div p

\* the fields the mapping of the well-formed index definitions declares
DeclaredFields == {<<"id">>, <<"a">>, <<"b">>, <<"c">>, <<"c", "t">>}

\* a record of the page has a field the mapping does not declare
HasUndeclaredField(documents) ==
  \E i \in 1..Len(documents) :
    \E key \in DOMAIN documents[i] : key \notin DeclaredFields

\* the first page of the initial query has an undeclared field
InitialPageUndeclared ==
  /\ hist.updates_started = 0
  /\ yielded # <<>>
  /\ HasUndeclaredField(yielded[1])

\* when the initial query is exhausted it has yielded ceil(N/P) pages, all
\* non-empty and of at most P records, whose concatenation is the N records
PagesCoverRecords ==
  pc = "iq_refresh" =>
    /\ Len(yielded) = Ceil(Len(records), qcfg.page_size)
    /\ \A i \in 1..Len(yielded) :
         yielded[i] # <<>> /\ Len(yielded[i]) <= qcfg.page_size
    /\ Flatten(yielded) = records
    /\ Len(records) = hist.matched
    /\ total_documents = hist.matched

C6_OffsetSchedule ==
  /\ [](\A k \in 1..Len(executions) :
          /\ executions[k].params["skip"] = (k - 1) * qcfg.page_size
          /\ executions[k].params["limit"] = qcfg.page_size)
  /\ [][gen'.offset # gen.offset =>
          /\ gen'.offset = gen.offset + qcfg.page_size
          /\ gen.state = "suspended"
          /\ Len(gen.page_results) = qcfg.page_size
          /\ yielded[Len(yielded)] = gen.page_results]_vars

\* a third execution at twice the page size
C6_Witness ==
  /\ qcfg.page_size = 2
  /\ Len(executions) = 3
  /\ executions[3].params["skip"] = 4
  /\ gen.offset = 4

\* ------------------------------------------------------------------- C7
\* C7: in every execution the keys skip and limit carry the offset of the
\* step and the page size, whatever the caller's variables hold under
\* them, and every other caller variable is passed with its value; no
\* other key is sent.
C7_PaginationPairWins ==
  \A k \in 1..Len(executions) :
    LET sent == executions[k].params
    IN /\ sent["skip"] = (k - 1) * qcfg.page_size
       /\ sent["limit"] = qcfg.page_size
       /\ DOMAIN sent = DOMAIN qcfg.variables \cup {"skip", "limit"}
       /\ \A key \in DOMAIN qcfg.variables \ {"skip", "limit"} :
            sent[key] = qcfg.variables[key]

\* the caller's skip and limit differ from the pair of the second step
C7_Witness ==
  /\ Len(executions) = 2
  /\ DOMAIN qcfg.variables = {"skip", "limit", "v"}
  /\ qcfg.variables["skip"] # executions[2].params["skip"]
  /\ qcfg.variables["limit"] # executions[2].params["limit"]
  /\ executions[2].params["v"] = 5

\* ------------------------------------------------------------------- C8
\* the lower-case form of a fragment
Lower(a) ==
  CASE a = "CREATE" -> "create"
    [] a = "SET" -> "set"
    [] a = "DELETE" -> "delete"
    [] a = "REMOVE" -> "remove"
    [] a = "MERGE" -> "merge"
    [] a = "DETACH" -> "detach"
    [] a = "DROP" -> "drop"
    [] a = "FOREACH" -> "foreach"
    [] a = "MATCH" -> "match"
    [] a = "$SKIP" -> "$skip"
    [] a = "$LIMIT" -> "$limit"
    [] a = "$Limit" -> "$limit"
    [] OTHER -> a

MutatingWords ==
  {"create", "set", "delete", "remove", "merge", "detach", "drop", "foreach"}

\* the text has a mutating keyword, in any case, as a whole word
HasMutatingWord(text) ==
  \E i \in 1..Len(text) :
    /\ Lower(text[i]) \in MutatingWords
    /\ (i > 1 => ~WordEnd(text[i - 1]))
    /\ (i < Len(text) => ~WordStart(text[i + 1]))

\* the text names a read clause / refers to the parameter, in any case
HasReadClause(text) ==
  \E i \in 1..Len(text) : Lower(text[i]) \in {"match", "return"}
RefersTo(parameter, text) ==
  \E i \in 1..Len(text) : Lower(text[i]) = parameter

UnsafeText(text) ==
  \/ HasMutatingWord(text)
  \/ ~HasReadClause(text)
  \/ ~RefersTo("$skip", text)
  \/ ~RefersTo("$limit", text)

\* C8: a text with a mutating keyword as a whole word, without a read
\* clause, or without a skip or a limit reference is never dispatched and
\* yields no page; the pagination call ends at its first step with a
\* ValueError.
C8_UnsafeNeverDispatched ==
  UnsafeText(qcfg.query) =>
    /\ executions = <<>>
    /\ yielded = <<>>
    /\ gen.state # "suspended"
    /\ gen.state = "done" => exc = "ValueError"

\* a text with a lower-case keyword between spaces, and with a read clause
\* and both references, was rejected
C8_Witness ==
  /\ qcfg.query = TextLower
  /\ gen.state = "done"
  /\ exc = "ValueError"
  /\ executions = <<>>

\* ------------------------------------------------------------------- C9
\* C9: when the first page of the initial query has a field the mapping
\* does not declare, the index's processing has returned 0 with no write
\* attempted, no document stored and no update query started.
C9_UnmappedInitialWritesNothing ==
  InitialPageUndeclared =>
    /\ pc = "returned"
    /\ ret = 0
    /\ attempts = <<>>
    /\ ~hist.wrote
    /\ total_documents = 0
    /\ Len(yielded) = 1

\* the first page of two records holds the undeclared field in its second
\* record; the index has update queries
C9_Witness ==
  /\ InitialPageUndeclared
  /\ pc = "returned"
  /\ Len(yielded[1]) = 2
  /\ Def.update_queries = 2

\* ------------------------------------------------------------------ C10
\* C10: when the first page of a query of the index, initial or update,
\* has a field the mapping does not declare, the index's processing ends
\* with no document of this run stored in the index.
C10_UnmappedSkipsWholeIndex ==
  (/\ pc \in {"returned", "except"}
   /\ yielded # <<>>
   /\ HasUndeclaredField(yielded[1])) => ~hist.wrote

\* ------------------------------------------------------------------ C11
\* the text of the update query that was running is one the graph client
\* rejects
UpdateTextRejected ==
  /\ hist.updates_started > 0
  /\ gen.state = "done"
  /\ executions = <<>>
  /\ UnsafeText(qcfg.query)

\* the processing of the index was skipped or aborted: an exception is on
\* its way out, or it returned after a missing or invalid mapping, after a
\* first page with an undeclared field, or after a rejected update query
SkippedOrAborted ==
  \/ pc = "except"
  \/ /\ pc = "returned"
     /\ Def.type = "query"
     /\ \/ Def.mapping = <<>>
        \/ ~ParseMapping(Def.mapping).ok
        \/ yielded # <<>> /\ HasUndeclaredField(yielded[1])
        \/ UpdateTextRejected

\* C11: the statistic recorded for an index whose processing was skipped or
\* aborted has document_count ERROR, never a number.
C11_SkippedIsError ==
  [][SkippedOrAborted =>
       /\ Len(index_stats') = idx
       /\ index_stats'[idx].document_count = ERROR
       /\ index_stats'[idx].error]_vars

\* ------------------------------------------------------------------ C12
\* C12: when the text of an update query is rejected, the rejection leaves
\* the index's processing as an exception: the index does not go on to its
\* final refresh and does not return a count.
C12_RejectedUpdateAborts ==
  UpdateTextRejected => pc = "except" /\ exc = "ValueError"

\* ------------------------------------------------------------------ C13
\* C13: once the specification is loaded with a non-empty indices list, no
\* error leaves load(): the run is never ended by an exception.
C13_NoErrorAbortsRun == indices # <<>> => pc # "aborted"

\* ------------------------------------------------------------------ C14
\* the name is one of the selected names, blanks around names aside
NameSelected(index_name, selection) ==
  \E i \in 1..Len(selection) : Strip(selection[i]) = Strip(index_name)

\* the definitions of the specification whose name is selected, in the
\* order of the specification
SelectedDefs(all_indices, selection) ==
  LET F[i \in 0..Len(all_indices)] ==
        IF i = 0 THEN <<>>
        ELSE IF NameSelected(all_indices[i].index_name, selection)
        THEN Append(F[i - 1], all_indices[i])
        ELSE F[i - 1]
  IN F[Len(all_indices)]

\* the indices processed so far are the first ones of load()'s list, in its
\* order, and all of them once the summary is reached
ProcessedInOrder ==
  /\ Len(index_stats) <= Len(indices)
  /\ \A i \in 1..Len(index_stats) :
       index_stats[i].index_name = indices[i].index_name
  /\ pc \in {"returned", "except"} =>
       /\ Len(index_stats) = idx - 1
       /\ index_config.index_name = indices[idx].index_name
  /\ pc = "done" => Len(index_stats) = Len(indices)

\* C14: with a non-empty selection that matches a definition, the list
\* load() goes through is the specification's definitions whose name is
\* selected, in specification order (selected names the specification lacks
\* change nothing), and the indices are processed in the order of that list.
C14_SelectionInOrder ==
  /\ []ProcessedInOrder
  /\ [][(/\ pc = "load"
         /\ selected_indices # <<>>
         /\ SelectedDefs(indices, selected_indices) # <<>>)
        => /\ indices' = SelectedDefs(indices, selected_indices)
           /\ pc' # "no_match"]_vars

\* only the second definition of a specification was selected, next to a
\* name the specification lacks; it was processed and the run is over
C14_Witness ==
  /\ pc = "done"
  /\ indices = <<IndexHead(NameB, "query")>>
  /\ Len(index_stats) = 1
  /\ index_stats[1].index_name = NameB

LastAttemptOk == attempts # <<>> /\ ~attempts[Len(attempts)].raised

\* C16: a query's next page is fetched only after its current page was
\* written, and every write submits the page fetched last, so pages are
\* written in pagination order; update queries start one at a time at
\* growing positions of the specification's list; an update query has
\* started only if every record of the initial query was written and a
\* refresh of the index was requested.
C16_Ordering ==
  /\ [](/\ pc \in {"uq_next", "uq_write", "uq_retry", "uq_end", "uq_break"} =>
             hist.updates_started <= u
        /\ pc = "uq_loop" => hist.updates_started < u
        /\ hist.updates_started > 0 =>
             /\ hist.refreshes >= 1
             /\ total_documents = hist.matched)
  /\ [][/\ (Len(yielded') > Len(yielded) /\ yielded # <<>>) => LastAttemptOk
        /\ Len(attempts') > Len(attempts) =>
             /\ yielded' = yielded
             /\ attempts'[Len(attempts')].page = yielded[Len(yielded)]
        /\ hist'.updates_started > hist.updates_started =>
             /\ pc = "uq_loop"
             /\ hist'.updates_started = hist.updates_started + 1
             /\ u' = u
             /\ u \in 1..Def.update_queries
        /\ u' # u => u' = u + 1 \/ u' = 0]_vars

\* the second update query has fetched a page; the initial query matched
\* two records, all written before the first update query started
C16_Witness ==
  /\ pc = "uq_write"
  /\ u = 2
  /\ hist.updates_started = 2
  /\ hist.matched = 2
  /\ total_documents = 2
  /\ hist.wrote

\* ------------------------------------------------------------------ C17
\* a step of the processing of a query index
ProcessingStep == pc \notin {"load", "for_index", "returned", "except"}

\* the step deleted or re-created the index before it is loaded
ClearsIndex == pc \in {"qi_delete", "qi_create"} /\ os_index'.docs = EmptyDict

\* the ids of the records of the page a write step submits
WrittenIds ==
  IF pc \in {"iq_write", "iq_retry", "uq_write", "uq_retry"}
  THEN {DictGet(page[i], Def.id_field) : i \in 1..Len(page)} \ {None}
  ELSE {}

\* the fields the records of the page specify for a document
SpecifiedFields(id) ==
  UNION {DOMAIN page[i] :
           i \in {j \in 1..Len(page) : DictGet(page[j], Def.id_field) = id}}

\* the step leaves alone every document its page does not name and, when
\* it is a step of an update query, every field its page does not specify
KeepsUntouched ==
  \A id \in DOMAIN os_index.docs :
    /\ id \notin WrittenIds =>
         /\ id \in DOMAIN os_index'.docs
         /\ os_index'.docs[id] = os_index.docs[id]
    /\ pc \in {"uq_write", "uq_retry"} =>
         /\ id \in DOMAIN os_index'.docs
         /\ \A k \in (DOMAIN os_index.docs[id]) \ SpecifiedFields(id) :
              /\ k \in DOMAIN os_index'.docs[id]
              /\ os_index'.docs[id][k] = os_index.docs[id][k]

IdOf(record) == DictGet(record, Def.id_field)

\* the page of the bulk update names a document the index lacked
UpdatesMissingDocument ==
  \E i \in 1..Len(page) :
    /\ IdOf(page[i]) # None
    /\ IdOf(page[i]) \notin DOMAIN client_call.before

\* C18: a bulk update leaves the set of document ids of the index as it
\* was, and when its page names a document the index lacks the call does
\* not raise unless the backend itself failed.
C18_UpdateSkipsMissing ==
  client_call.op = "bulk_update" =>
    /\ DOMAIN os_index.docs = DOMAIN client_call.before
    /\ (UpdatesMissingDocument /\ client_call.outcome.kind # "raise") =>
         ~client_call.raised

\* ------------------------------------------------------------------ C19
\* a bulk upsert of the page was made and the backend accepted every action
UpsertAccepted ==
  /\ client_call.op = "bulk_upsert"
  /\ client_call.outcome.kind = "ok"
  /\ client_call.merges = EmptyDict

\* the ids the records of the page carry
PageIds == {IdOf(page[i]) : i \in 1..Len(page)} \ {None}

\* no later record of the page carries the id of record i
LastWithId(i) == \A j \in (i + 1)..Len(page) : IdOf(page[j]) # IdOf(page[i])

\* the call did not raise, wrote no document under another id and left the
\* other documents of the index as they were
WritesOnlyPageIds ==
  /\ ~client_call.raised
  /\ DOMAIN os_index.docs = (DOMAIN client_call.before) \cup PageIds
  /\ \A id \in (DOMAIN client_call.before) \ PageIds :
       os_index.docs[id] = client_call.before[id]

\* C19 (amended): after a bulk upsert of a page, for every record with an id
\* that is the last record of the page with that id, the index holds under
\* the id a document equal to the whole record, id field included, whatever
\* it held before; records without an id write nothing and the call does
\* not raise.
C19_UpsertStoresLastRecord ==
  UpsertAccepted =>
    /\ WritesOnlyPageIds
    /\ \A i \in 1..Len(page) :
         (IdOf(page[i]) # None /\ LastWithId(i)) =>
           /\ IdOf(page[i]) \in DOMAIN os_index.docs
           /\ os_index.docs[IdOf(page[i])] = page[i]

\* C19 as stated: after a bulk upsert of a page, for every record with an
\* id the index holds under the id a document equal to the whole record;
\* records without an id write nothing and the call does not raise.
C19_AsStated ==
  UpsertAccepted =>
    /\ WritesOnlyPageIds
    /\ \A i \in 1..Len(page) :
         IdOf(page[i]) # None =>
           /\ IdOf(page[i]) \in DOMAIN os_index.docs
           /\ os_index.docs[IdOf(page[i])] = page[i]

\* a page of a record with id 2 and a record without an id was upserted
\* into an index holding another document 2: the record replaced it whole
C19_Witness ==
  /\ UpsertAccepted
  /\ page = <<U2, N0>>
  /\ 2 \in DOMAIN client_call.before
  /\ client_call.before[2] = StaleDoc
  /\ os_index.docs[2] = U2
  /\ <<"a">> \notin DOMAIN os_index.docs[2]

\* ------------------------------------------------------------------ C20
\* every record of the page has an id and no two have the same
UniqueIds ==
  /\ \A i \in 1..Len(page) : IdOf(page[i]) # None
  /\ \A i, j \in 1..Len(page) : i # j => IdOf(page[i]) # IdOf(page[j])

\* C20: after a page with unique ids was bulk-upserted and records were
\* merged into its documents, every merged document has the fields of the
\* merge record with the merge record's values, and every field of the
\* original record that the merge record lacks with its original value.
C20_MergeKeepsAndOverrides ==
  (/\ client_call.op = "bulk_upsert"
   /\ client_call.outcome.kind = "ok"
   /\ UniqueIds) =>
    \A i \in 1..Len(page) :
      IdOf(page[i]) \in DOMAIN client_call.merges =>
        LET doc == os_index.docs[IdOf(page[i])]
            upd == client_call.merges[IdOf(page[i])]
        IN /\ \A k \in DOMAIN upd : k \in DOMAIN doc /\ doc[k] = upd[k]
           /\ \A k \in (DOMAIN page[i]) \ DOMAIN upd :
                k \in DOMAIN doc /\ doc[k] = page[i][k]

\* two records were upserted and each merged with a record sharing one of
\* its fields and bringing another
C20_Witness ==
  /\ client_call.op = "bulk_upsert"
  /\ client_call.outcome.kind = "ok"
  /\ page = <<G1, U2>>
  /\ DOMAIN client_call.merges = {1, 2}
  /\ client_call.merges[1] = (<<"a">> :> Scalar(2)) @@ (<<"b">> :> Scalar(3))
  /\ client_call.merges[2] = (<<"a">> :> Scalar(2)) @@ (<<"b">> :> Scalar(3))
  /\ os_index.docs[1][<<"id">>] = Scalar(1)
  /\ os_index.docs[1][<<"a">>] = Scalar(2)
  /\ os_index.docs[2][<<"b">>] = Scalar(3)

\* ------------------------------------------------------------------ C21
\* C21: when bulk upsert is run twice with the same page and the backend
\* treats the actions of the second run as it treated those of the first,
\* the documents of the index after the second run are the documents after
\* the first run.
C21_UpsertIdempotent ==
  (/\ client_call.op = "bulk_upsert"
   /\ client_call.runs = 2
   /\ client_call.first_outcome = client_call.outcome) =>
    os_index.docs = client_call.first

\* a page of two records, one replacing a document of the index, was
\* upserted twice
C21_Witness ==
  /\ client_call.op = "bulk_upsert"
  /\ client_call.runs = 2
  /\ client_call.first_outcome.kind = "ok"
  /\ client_call.outcome.kind = "ok"
  /\ page = <<G1, U2>>
  /\ client_call.before = (2 :> StaleDoc)
  /\ os_index.docs = (1 :> G1) @@ (2 :> U2)

\* ------------------------------------------------------------------ C22
\* a bulk call of the current page has just returned, not raised, with a
\* non-empty list of failed items
ItemsFailedReturned ==
  /\ Len(attempts') = Len(attempts) + 1
  /\ attempts'[Len(attempts')].failed
  /\ ~attempts'[Len(attempts')].raised

\* C22: when a bulk call returns with failed items instead of raising, the
\* page counts as written: the page is not written again, no exception
\* leaves the write, the page's records are added to the count of the query
\* and the query goes on to fetch its next page.
C22_FailedItemsCountAsSuccess ==
  [][ItemsFailedReturned =>
       /\ exc' = "none"
       /\ \/ /\ pc \in {"iq_write", "iq_retry"}
             /\ pc' = "iq_next"
             /\ total_documents' = total_documents + Len(page)
          \/ /\ pc \in {"uq_write", "uq_retry"}
             /\ pc' = "uq_next"
             /\ total_updates' = total_updates + Len(page)]_vars

\* a bulk call of the initial query returned with failed items, an update
\* query ran afterwards, and the index processing returned normally
C22_Witness ==
  /\ pc = "returned"
  /\ hist.item_failed
  /\ hist.updates_started > 0
  /\ hist.wrote
  /\ exc = "none"

\* ------------------------------------------------------------------ C30
\* the mappings of the index definitions that are present and parse
ParsableMappings ==
  {d.mapping : d \in {e \in IndexDefs :
                        e.mapping # <<>> /\ ParseMapping(e.mapping).ok}}

\* the loop is inside _process_index for a query index whose mapping is
\* missing or does not parse
MappingUnusable ==
  /\ pc \notin {"load", "for_index", "done", "no_match", "aborted"}
  /\ Def.type = "query"
  /\ Def.mapping \notin ParsableMappings

\* C30: for a query index whose mapping is missing or fails to parse,
\* _process_index ends at once: control never reaches the delete, the
\* create, a graph query, a write or a refresh, none of them is in the
\* histories of the index, and the next step records the index and moves
\* the loop to the next one.
C30_UnusableMappingNoBackendCall ==
  [][/\ MappingUnusable' =>
          /\ pc' \in {"returned", "except"}
          /\ executions' = <<>>
          /\ attempts' = <<>>
          /\ gen' = NoGen
          /\ hist' = NoHist
     /\ MappingUnusable =>
          /\ pc' = "for_index"
          /\ idx' = idx + 1
          /\ Len(index_stats') = Len(index_stats) + 1]_vars

\* the first index had a mapping with a duplicate field and an index that
\* exists with a document; the loop recorded it and is inside the second
C30_Witness ==
  /\ MappingUnusable
  /\ Def.mapping = DuplicateMapping
  /\ Def.id_field # <<>>
  /\ os_index.docs # EmptyDict
  /\ idx = 1
  /\ n_indices = 2

\* ------------------------------------------------------------------ C27
\* the generator of the current query has just yielded a page
PageYielded == Len(yielded') = Len(yielded) + 1

\* the write of a page is what comes next
WriteIsNext == pc' \in {"iq_write", "uq_write"}

\* C27: the first page a query yields (pages are never empty) is validated
\* before it is written: it is written only if its fields are mapped, and
\* then the query is marked validated.  Every later page of the query goes
\* to its write whatever its fields are, and no page is written in a query
\* that is not marked validated.
C27_ValidatedOnceOnFirstPage ==
  [][/\ (PageYielded /\ yielded = <<>>) =>
          /\ ~first_page_validated
          /\ page' # <<>>
          /\ WriteIsNext <=>
               ValidateQueryFields(page', ParseMapping(Def.mapping).mapping)
          /\ WriteIsNext => first_page_validated'
     /\ (PageYielded /\ yielded # <<>>) =>
          /\ first_page_validated
          /\ WriteIsNext
     /\ Len(attempts') > Len(attempts) => first_page_validated]_vars

\* the second page of an initial query, holding a field the mapping lacks,
\* was written
C27_Witness ==
  /\ pc = "iq_next"
  /\ Len(yielded) = 2
  /\ yielded[2] = <<X1>>
  /\ attempts # <<>>
  /\ ~attempts[Len(attempts)].raised
  /\ 1 \in DOMAIN os_index.docs
  /\ os_index.docs[1] = X1

\* ------------------------------------------------------------------ C26
\* C26: within one query no refresh of the index is requested between the
\* writes of its pages: when a page after the first is written, no bulk
\* call of the query has asked for a refresh, and refresh_index is called
\* only when the pages of the query are over.
C26_NoRefreshBetweenPages ==
  [][/\ (Len(attempts') > Len(attempts) /\ page_num >= 2) =>
          ~hist.page_refresh
     /\ hist'.refreshes > hist.refreshes =>
          pc \in {"for_index", "iq_refresh", "uq_loop", "uq_break"}]_vars

\* ------------------------------------------------------------------ C28
\* C28: when the processing of an index returns and the run stored a
\* document in it, refresh_index was called after the last document was
\* stored.
C28_RefreshedBeforeRecorded ==
  (pc = "returned" /\ hist.wrote) => (~hist.dirty /\ hist.refreshes > 0)

\* a query index returned after an update query stored a document
C28_Witness ==
  /\ pc = "returned"
  /\ hist.wrote
  /\ Def.type = "query"
  /\ total_updates > 0
  /\ hist.refreshes = 2

\* about_file and model indices are refreshed like query indices: an
\* about_file index returned after its pages were stored
C28_AboutWitness ==
  /\ pc = "returned"
  /\ hist.wrote
  /\ Def.type = "about_file"
  /\ hist.refreshes = 1

\* ------------------------------------------------------------------ C23
\* the processing of an about_file or model index is over
AuxiliaryProcessed ==
  /\ pc \in {"returned", "except"}
  /\ Def.type \in {"about_file", "model"}

\* no graph query was executed and no page was validated for the index
NoQueryNoValidation ==
  /\ executions = <<>>
  /\ yielded = <<>>
  /\ gen = NoGen
  /\ ~first_page_validated

\* C23 as stated: an about_file or model index that loaded documents wrote
\* them with exactly one bulk-upsert call, without graph query or field
\* validation.
C23_AsStated ==
  (AuxiliaryProcessed /\ pc = "returned" /\ ret > 0) =>
    /\ hist.aux_bulk_calls = 1
    /\ hist.aux_single_calls = 0
    /\ NoQueryNoValidation

\* C23, amended: a model index writes its documents with one bulk-upsert
\* call (none when there is no document) and no single-document call; an
\* about_file index makes no bulk-upsert call and one single-document
\* upsert call per page; neither executes a graph query or validates
\* fields.
C23_AuxiliaryWrites ==
  AuxiliaryProcessed =>
    /\ NoQueryNoValidation
    /\ Def.type = "model" =>
         /\ hist.aux_single_calls = 0
         /\ hist.aux_bulk_calls <= 1
         /\ pc = "returned" =>
              hist.aux_bulk_calls = (IF ret > 0 THEN 1 ELSE 0)
    /\ Def.type = "about_file" =>
         /\ hist.aux_bulk_calls = 0
         /\ pc = "returned" => hist.aux_single_calls = ret

\* an about_file index loaded the two numbered pages of its file
C23_Witness ==
  /\ AuxiliaryProcessed
  /\ Def.type = "about_file"
  /\ pc = "returned"
  /\ ret = 2
  /\ hist.aux_single_calls = 2
  /\ PageDocId(1) \in DOMAIN os_index.docs
  /\ PageDocId(2) \in DOMAIN os_index.docs

\* ------------------------------------------------------------------ C25
\* C25: when test mode is enabled in the configuration, a query executes a
\* single page: at most one page is fetched and yielded.
C25_TestModeSinglePage ==
  config.test_mode =>
    /\ Len(executions) <= 1
    /\ Len(yielded) <= 1
    /\ page_num <= 1

\* ------------------------------------------------------------------ C29
\* a page loop is running
InPageLoop ==
  pc \in {"iq_next", "iq_write", "iq_retry", "uq_next", "uq_write", "uq_retry"}

\* C29: while the generator of a query is suspended at a yield the
\* client's last_query_time is zero; the value the loader reads when the
\* page loop is left before the generator is exhausted is zero, and the
\* value it reads after exhaustion is the total of the executions of that
\* query.
C29_TimingNeverLeftover ==
  [][/\ gen'.state = "suspended" => last_query_time' = 0
     /\ (InPageLoop /\ pc' \in {"iq_refresh", "uq_end"}) =>
          /\ query_duration' = last_query_time'
          /\ query_duration' = gen'.total_query_time
          /\ query_duration' = Len(executions')
     /\ (InPageLoop /\ pc' \in {"except", "returned", "uq_break"}) =>
          query_duration' = 0]_vars

\* an update query was left at its first page, after an initial query
\* whose total was not zero: the value read is zero
C29_Witness ==
  /\ pc = "uq_break"
  /\ hist.matched = 2
  /\ total_documents = 2
  /\ Len(yielded) = 1
  /\ query_duration = 0
  /\ last_query_time = 0

\* ------------------------------------------------------------------ C24
\* the field names of a declaration, in the order the parser meets them
DeclaredNames(mapping_config) ==
  Flatten([i \in 1..Len(mapping_config) |-> mapping_config[i].fields])

\* a name occurs twice at top level or twice under the same parent
DuplicateInScope(names) ==
  \E i, j \in 1..Len(names) : i < j /\ names[i] = names[j]

\* a name occurs once at top level and once as a property of a parent
DuplicateAcrossScopes(names) ==
  \E i, j \in 1..Len(names) :
    /\ Len(names[i]) = 1
    /\ Len(names[j]) = 2
    /\ names[j][2] = names[i][1]

\* C24: for every declaration in which a field name occurs more than once,
\* at top level, under the same parent, or once at top level and once as a
\* property, _parse_mapping raises and returns no mapping.
C24_DuplicateFieldFails ==
  (/\ pc = "parsed"
   /\ \/ DuplicateInScope(DeclaredNames(Def.mapping))
      \/ DuplicateAcrossScopes(DeclaredNames(Def.mapping))) =>
    /\ exc = "ValueError"
    /\ ret = 0

\* what holds of the parser: a duplicate within one scope always fails, a
\* duplicate across scopes fails when the property is declared before the
\* top-level name
C24_DetectedDuplicates ==
  LET names == DeclaredNames(Def.mapping)
  IN (/\ pc = "parsed"
      /\ \/ DuplicateInScope(names)
         \/ \E i, j \in 1..Len(names) :
              /\ j < i
              /\ Len(names[i]) = 1
              /\ Len(names[j]) = 2
              /\ names[j][2] = names[i][1]) =>
       /\ exc = "ValueError"
       /\ ret = 0

\* ------------------------------------------------------------------ C31
\* the map a value stands for when names are extracted: a nested map, or
\* the first element of a list of objects; no map for anything else
MapOf(value) ==
  IF value.k = "dict" THEN value.v
  ELSE IF value.k = "list" /\ value.v # <<>> /\ value.v[1].k = "dict"
  THEN value.v[1].v
  ELSE EmptyDict

\* the field names of a record as the claim describes them, written out
\* level by level for records of up to three levels
ClaimedNames(doc) ==
  {k1 : k1 \in DOMAIN doc}
  \cup UNION {{k1 \o k2 : k2 \in DOMAIN MapOf(doc[k1])} : k1 \in DOMAIN doc}
  \cup UNION {UNION {{k1 \o k2 \o k3 : k3 \in DOMAIN MapOf(MapOf(doc[k1])[k2])} :
                       k2 \in DOMAIN MapOf(doc[k1])} : k1 \in DOMAIN doc}

\* the name is a top-level field of the mapping, or parent.child with
\* child a declared property of the nested object parent
DeclaredIn(name, mapping) ==
  \/ Len(name) = 1 /\ name[1] \in DOMAIN mapping
  \/ /\ Len(name) = 2
     /\ name[1] \in DOMAIN mapping
     /\ mapping[name[1]].type = "object"
     /\ "properties" \in DOMAIN mapping[name[1]]
     /\ name[2] \in DOMAIN mapping[name[1]].properties

\* C31: validate returns ok for a page and a mapping exactly when every
\* field name extracted from the page's records is a top-level field of
\* the mapping or a declared property of a nested object of the mapping.
C31_ValidateIffAllDeclared ==
  pc = "validated" =>
    (first_page_validated <=>
       \A i \in 1..Len(page) : \A name \in ClaimedNames(page[i]) :
         DeclaredIn(name, ParseMapping(Def.mapping).mapping))

\* a page passed whose list of objects has an undeclared field in its
\* second element only
C31_Witness ==
  /\ pc = "validated"
  /\ first_page_validated
  /\ Len(page) = 2
  /\ page[1] = G1
  /\ page[2] = (<<"p">> :> ListValue(<<DictValue((<<"a">> :> Scalar(1))),
                                       DictValue((<<"z">> :> Scalar(1)))>>))

\* a page failed for a property under a field that is no nested object
C31_RejectWitness ==
  /\ pc = "validated"
  /\ ~first_page_validated
  /\ page = <<(<<"q">> :> DictValue((<<"a">> :> Scalar(1))))>>
  /\ <<"q">> \in {<<f>> : f \in DOMAIN ParseMapping(Def.mapping).mapping}

\* ------------------------------------------------------------------ C32
\* the records of the page that produce an update action: those with an
\* id and a field besides it
ProducesAction(rec) ==
  /\ IdKey \in DOMAIN rec
  /\ rec[IdKey].v # None
  /\ DOMAIN rec # {IdKey}

\* C32: after a bulk update the batches handed over are consecutive slices
\* of the page, in page order, of at most 5000 records each and none
\* empty; together they are the page when no batch raised, and the page up
\* to the end of the raising batch otherwise.  The actions sent for a batch
\* are, in order, one per record of the batch that has an id and a field
\* besides it; none of their bodies contains id_field.
C32_UpdateBodiesAndBatches ==
  pc = "updated" =>
    /\ Len(Flatten(yielded)) <= Len(page)
    /\ Flatten(yielded) = SubSeq(page, 1, Len(Flatten(yielded)))
    /\ exc = "none" => Flatten(yielded) = page
    /\ \A b \in 1..Len(yielded) :
         /\ Len(yielded[b]) \in 1..5000
         /\ b < Len(yielded) => Len(yielded[b]) = 5000
         /\ LET sending == SelectSeq(yielded[b], ProducesAction)
            IN /\ Len(attempts[b]) = Len(sending)
               /\ \A i \in 1..Len(sending) :
                    /\ attempts[b][i].id = sending[i][IdKey].v
                    /\ IdKey \notin DOMAIN attempts[b][i].body
                    /\ \A k \in DOMAIN sending[i] \ {IdKey} :
                         /\ k \in DOMAIN attempts[b][i].body
                         /\ attempts[b][i].body[k] = sending[i][k]

\* a page one record longer than two full batches was handed over in three
\* batches, the last of one record
C32_Witness ==
  /\ pc = "updated"
  /\ exc = "none"
  /\ Len(page) = 10001
  /\ Len(yielded) = 3
  /\ Len(yielded[3]) = 1
  /\ page[3] = IdOnly
  /\ Len(attempts[1]) < 5000

\* ------------------------------------------------------------------ C33
\* the index definition being processed lacks id_field or initial_query
LacksSetting == Def.id_field = <<>> \/ ~Def.initial_query

\* C33: while a query index that lacks a required setting is processed,
\* the destination index is neither deleted nor created, and the step that
\* finds the setting missing raises ValueError to load()'s handler, which
\* records the index as failed and goes on with the next one.
C33_MissingSettingLeavesIndex ==
  [][/\ (pc \in {"qi_delete", "qi_create", "qi_initial"} /\ LacksSetting)
          => os_index' = os_index
     /\ (pc = "qi_initial" /\ LacksSetting)
          => (pc' = "except" /\ exc' = "ValueError")
     /\ (pc = "except" /\ LacksSetting)
          => (pc' = "for_index" /\ idx' = idx + 1)]_vars

\* a missing id_field is found before any call to the backend: the index
\* is what it was when the definition was read
C33_IdFieldCheckedFirst ==
  (pc = "except" /\ Def.type = "query" /\ Def.id_field = <<>>)
    => (exc = "ValueError" /\ os_index \in PriorIndexStates)

\* ------------------------------------------------------------------ C34
\* the orders in which n things can be taken
Perms(n) == {f \in [1..n -> 1..n] : \A i, j \in 1..n : f[i] = f[j] => i = j}

\* the sequence s taken in the order f
Reorder(s, f) == [i \in 1..Len(s) |-> s[f[i]]]

\* the declarations that differ from mapping_config only in the order of
\* the type groups and of the field names inside the groups
Reorderings(mapping_config) ==
  {d \in MappingConfigs :
     /\ Len(d) = Len(mapping_config)
     /\ \E groups \in Perms(Len(mapping_config)) :
          \A i \in 1..Len(d) :
            /\ d[i].type = mapping_config[groups[i]].type
            /\ Len(d[i].fields) = Len(mapping_config[groups[i]].fields)
            /\ \E names \in Perms(Len(d[i].fields)) :
                 d[i].fields = Reorder(mapping_config[groups[i]].fields, names)}

\* C34: _parse_mapping accepts a declaration exactly when it accepts every
\* reordering of it, and returns the same mapping for all of them.
C34_ParseOrderIndependent ==
  pc = "parsed" =>
    \A d \in Reorderings(Def.mapping) :
      /\ ParseMapping(d).ok = (exc = "none")
      /\ ParseMapping(d).mapping = ParseMapping(Def.mapping).mapping

\* what holds of the parser: the order does not matter for a declaration
\* in which no name occurs both at top level and as a property
C34_OrderIndependentWithinScopes ==
  (pc = "parsed" /\ ~DuplicateAcrossScopes(DeclaredNames(Def.mapping))) =>
    \A d \in Reorderings(Def.mapping) :
      /\ ParseMapping(d).ok = (exc = "none")
      /\ ParseMapping(d).mapping = ParseMapping(Def.mapping).mapping

\* ------------------------------------------------------------------ C35
\* an entry of the statistics is a document count with the error flag
\* clear, or ERROR with the error flag set
WellFormedStat(stat) ==
  \/ stat.document_count \in Nat /\ ~stat.error
  \/ stat.document_count = ERROR /\ stat.error

\* C35: the summary is written only by the step that follows the loop,
\* once the last index of load()'s list has been recorded; the statistics
\* it prints hold one entry for each index of the list, in the order of the
\* list, each a document count with the error flag clear or ERROR with the
\* flag set, the latter exactly for the indices whose processing raised.
C35_StatsCompleteAtSummary ==
  [][pc' = "done" =>
       /\ pc = "for_index"
       /\ idx = n_indices + 1
       /\ index_stats' = index_stats
       /\ Len(index_stats) = n_indices
       /\ Len(outcomes) = n_indices
       /\ \A i \in 1..n_indices :
            /\ index_stats[i].index_name = indices[i].index_name
            /\ WellFormedStat(index_stats[i])
            /\ index_stats[i].error = (outcomes[i] = "raised")]_vars

\* the summary of a run over two indices: the first one was recorded with
\* its count, the second one raised
C35_Witness ==
  /\ pc = "done"
  /\ n_indices = 2
  /\ Len(index_stats) = 2
  /\ ~index_stats[1].error
  /\ index_stats[1].document_count > 0
  /\ index_stats[2].error
  /\ index_stats[2].document_count = ERROR
  /\ outcomes = <<"returned", "raised">>

\* ------------------------------------------------------------------ C36
\* a page write of the initial query has just returned
InitialWriteReturned ==
  /\ pc \in {"iq_write", "iq_retry"}
  /\ pc' = "iq_next"

\* the documents the write that has just returned stored: one for each
\* record of the page that carries an id, less the one the backend
\* reported as failed
StoredByWrite ==
  Len(UpsertActions(page, Def.id_field))
  - (IF attempts'[Len(attempts')].failed THEN 1 ELSE 0)

\* C36: the count of a query index grows with every page write of the
\* initial query that returns, by the number of documents that write stored
\* (records without id_field and documents reported as failed left out),
\* it does not change while the update queries run, and it is the count
\* recorded for the index.
C36_CountIsStoredDocuments ==
  [][/\ InitialWriteReturned =>
          total_documents' = total_documents + StoredByWrite
     /\ (pc \in {"uq_next", "uq_write", "uq_retry"}) =>
          total_documents' = total_documents
     /\ (pc = "returned" /\ Def.type = "query") =>
          index_stats'[Len(index_stats')].document_count = total_documents]_vars

\* what holds of the count: it grows by the number of records of the page,
\* whatever the write stored, and the update queries leave it alone
C36_CountIsRecordsOfWrittenPages ==
  [][/\ InitialWriteReturned =>
          total_documents' = total_documents + Len(page)
     /\ (pc \in {"uq_next", "uq_write", "uq_retry"}) =>
          total_documents' = total_documents]_vars

\* ------------------------------------------------------------------ C37
\* processing of an about_file or model index was ended by a write that
\* raised: a write was made, and the exception came before the refresh
AuxiliaryWriteFailed ==
  /\ pc = "except"
  /\ exc = "Exception"
  /\ Def.type \in {"about_file", "model"}
  /\ hist.refreshes = 0
  /\ hist.aux_bulk_calls + hist.aux_single_calls > 0

\* the about pages the index holds
PagesStored == Cardinality({d \in DOMAIN os_index.docs : d > PageDocId(0)})

\* C37: when a write of an about_file or model index raises and the index
\* is aborted, the failed write was made twice: the bulk call of a model
\* index, or the upsert_document call of the page after the pages stored.
C37_AuxiliaryWriteRetried ==
  AuxiliaryWriteFailed =>
    /\ Def.type = "model" => hist.aux_bulk_calls = 2
    /\ Def.type = "about_file" => hist.aux_single_calls = PagesStored + 2

\* what holds of the auxiliary loaders: the write that raises is made once
C37_AuxiliaryWriteOnce ==
  AuxiliaryWriteFailed =>
    /\ Def.type = "model" => hist.aux_bulk_calls = 1
    /\ Def.type = "about_file" => hist.aux_single_calls = PagesStored + 1

\* ------------------------------------------------------------------ C38
\* the run is about to start and its selection leaves an index to process
RunSelectsAnIndex ==
  /\ pc = "load"
  /\ EffectiveIndices(indices, GetSelectedIndices(selected_indices)) # <<>>

\* the run has reached the summary with every index of its list recorded
SummaryReached ==
  /\ pc = "done"
  /\ Len(index_stats) = n_indices

\* C38: every run whose selection leaves an index to process reaches the
\* summary with each of these indices recorded, whatever the backend calls
\* return or raise and whatever the validations find.
C38_RunReachesSummary == RunSelectsAnIndex ~> SummaryReached

\* the run goes on as long as it has a step to take, written without
\* ENABLED: only the final states of load() have no next step
RunMoves ==
  \/ []<>(pc \in {"done", "no_match", "aborted"})
  \/ []<><<TRUE>>_vars

\* what holds of the run: it ends, at the summary, at the warning for a
\* selection that matches nothing, or with the exception of read_model
C38_RunEnds == RunMoves => <>(pc \in {"done", "no_match", "aborted"})

\* what holds of the loop: once it is entered, every index is recorded and
\* the summary is reached
C38_LoopReachesSummary == RunMoves => ((pc = "for_index") ~> SummaryReached)

====
